---- MODULE Spec2Model ----
(***************************************************************************)
(* Model of the rke machine controller of rancher-operator                 *)
(* (pkg/controllers/rke/machine/controller.go): the per-machine reconcile  *)
(* pass OnChange with its two provisioners, the bootstrap resolver, the    *)
(* related-resource trigger, and the stores and caches they read and write.*)
(***************************************************************************)
EXTENDS Integers, Sequences, FiniteSets, TLC

VARIABLES
    machines,          \* the Machine objects, as the dispatcher hands them to OnChange
    clusters,          \* clusterCache: the Cluster objects
    serviceAccounts,   \* serviceAccountCache: the principals in the store
    rkeBootstraps,     \* the RKEBootstrap objects in the authoritative store
    rkeBootstrapCache, \* rkeBootstrapCache: what the informer cache holds of them
    desired,           \* per machine: the desired set a pass returned, until it is applied
    applied,           \* per machine: the objects the apply engine holds for it
    queue,             \* the machine keys waiting for a reconcile pass
    last,              \* the latest reconcile pass: its machine, fault input and outcome
    streak,            \* how many passes in a row had this machine and fault input
    trig,              \* the latest call of the trigger's resolver and what it returned
    inflight           \* per machine: the pass a worker runs for it, call by call

vars == <<machines, clusters, serviceAccounts, rkeBootstraps, rkeBootstrapCache,
          desired, applied, queue, last, streak, trig, inflight>>

-----------------------------------------------------------------------------
(* Bounds of the model. *)

\* the most credential-secret references the token controller attaches to a principal
MaxRefs == 2

-----------------------------------------------------------------------------
(* Values. *)

\* a nil pointer, a nil error, a nil object
Nil == <<>>
Some(x) == <<x>>
NoErr == "nil"

machineNameLabel == "rke.cattle.io/machine-name"
ClusterNameLabel == "rke.cattle.io/cluster-name"
roleLabel == "rke.cattle.io/service-account-role"
planSecret == "rke.cattle.io/plan-secret-name"
roleBootstrap == "bootstrap"
rolePlan == "plan"

\* rkev1.SchemeGroupVersion
SchemeGroup == "rke.cattle.io"
SchemeVersion == "v1"

\* fmt.Sprintf("%s/%s", Group, Version)
bootstrapAPIVersion == SchemeGroup \o "/" \o SchemeVersion

\* capi.MachinePhase*
MachinePhasePending == "Pending"
MachinePhaseProvisioning == "Provisioning"
MachinePhaseRunning == "Running"
MachinePhaseDeleting == "Deleting"
MachinePhaseFailed == "Failed"

\* rbacv1.GroupName
RbacGroupName == "rbac.authorization.k8s.io"

-----------------------------------------------------------------------------
(* Strings. *)

\* strings.Count(s, "/")
CountSlash(s) == Cardinality({i \in 1..Len(s) : SubSeq(s, i, i) = "/"})

\* strings.Index(s, "/"), 1-based; only used when s holds a slash
IndexSlash(s) ==
    CHOOSE i \in 1..Len(s) :
        SubSeq(s, i, i) = "/" /\ \A j \in 1..(i - 1) : SubSeq(s, j, j) # "/"

\* schema.ParseGroupVersion: "" and "/" are the empty group version, "v" is version
\* v of the core group, "g/v" is group g, anything with more slashes is an error
ParseGroupVersion(gv) ==
    IF Len(gv) = 0 \/ gv = "/" THEN [group |-> "", version |-> "", err |-> FALSE]
    ELSE IF CountSlash(gv) = 0 THEN [group |-> "", version |-> gv, err |-> FALSE]
    ELSE IF CountSlash(gv) = 1
         THEN [group |-> SubSeq(gv, 1, IndexSlash(gv) - 1),
               version |-> SubSeq(gv, IndexSlash(gv) + 1, Len(gv)),
               err |-> FALSE]
         ELSE [group |-> "", version |-> "", err |-> TRUE]

\* schema.FromAPIVersionAndKind: on a parse error only the kind is kept
FromAPIVersionAndKind(apiVersion, kind) ==
    LET gv == ParseGroupVersion(apiVersion)
    IN  IF gv.err THEN [group |-> "", version |-> "", kind |-> kind]
        ELSE [group |-> gv.group, version |-> gv.version, kind |-> kind]

\* sha256 as an ideal hash: the digest of s is a symbol that names s, so that two
\* digests are equal exactly when their inputs are
Sha256(s) == "sha256(" \o s \o ")"

\* hex.EncodeToString(digest)[0:5]
Hex5(digest) == "hex5(" \o digest \o ")"

\* base64.URLEncoding.EncodeToString
Base64URL(bytes) == "b64url(" \o bytes \o ")"


\* name.SafeConcatName: the parts joined with "-"; a result of 64 characters or more
\* is cut to its first 57 characters and gets "-" and five hex digits of the sha256
\* of the whole
SafeConcatName(a, b, c) ==
    LET fullPath == a \o "-" \o b \o "-" \o c
    IN  IF Len(fullPath) > 63
        THEN SubSeq(fullPath, 1, 57) \o "-" \o Hex5(Sha256(fullPath))
        ELSE fullPath

\* planner.PlanSecretFromMachine: the deterministic plan-channel name of a machine
PlanSecretFromMachine(obj) == "plan-" \o Sha256(obj.name)

-----------------------------------------------------------------------------
(* The bounded world the controller runs in. *)

\* a machine with a short name and one whose bootstrap name exceeds 63 characters
ShortName == "m1"
LongName == "worker-pool-eu-central-1a-node-0000000000000042"
Namespace == "ns1"

Key(ns, n) == [namespace |-> ns, name |-> n]
M1 == Key(Namespace, ShortName)
M2 == Key(Namespace, LongName)

ClusterName == "c1"

Phases == {"", MachinePhasePending, MachinePhaseProvisioning, MachinePhaseRunning,
           MachinePhaseDeleting, MachinePhaseFailed}

Ref(apiVersion, kind, name) == [apiVersion |-> apiVersion, kind |-> kind, name |-> name]

\* the infrastructure references a Cluster may carry
InfraRefs == {Nil,
              Some(Ref("rke.cattle.io/v1", "RKECluster", ClusterName)),
              Some(Ref("rke.cattle.io/v1", "AKSCluster", ClusterName)),
              Some(Ref("infrastructure.cluster.x-k8s.io/v1alpha4", "RKECluster", ClusterName)),
              Some(Ref("v1", "RKECluster", ClusterName))}

\* the bootstrap config references a Machine may carry
ConfigRefs(bs) == {Nil,
                   Some(Ref("rke.cattle.io/v1", "RKEBootstrap", bs)),
                   Some(Ref("rke.cattle.io/v2", "RKEBootstrap", bs)),
                   Some(Ref("bootstrap.cluster.x-k8s.io/v1alpha4", "RKEBootstrap", bs)),
                   Some(Ref("rke.cattle.io/v1", "KubeadmConfig", bs))}

\* the credential-secrets of the secret cache: two with different tokens, one
\* without a token key; a reference to any other name is not found
CredentialSecrets ==
    {[namespace |-> Namespace, name |-> "token-a", data |-> [token |-> "AAAA"]],
     [namespace |-> Namespace, name |-> "token-b", data |-> [token |-> "BBBB"]],
     [namespace |-> Namespace, name |-> "token-empty", data |-> [other |-> "x"]]}

\* the names the token controller may reference from a principal
SecretRefNames == {"token-a", "token-b", "token-empty", "token-gone"}

\* the value of the cluster-wide setting the bootstrap content provider reads
ServerURL == "https://rancher.example"

\* the calls of a pass that can fail with an error other than not-found
Faults == {"none", "clusterCache.Get", "serviceAccountCache.Get", "secretCache.Get",
           "Bootstrap", "rkeBootstrapCache.Get", "rkeBootstrap.UpdateStatus"}

Err(reason, call) == [reason |-> reason, call |-> call]
NoError == Err(NoErr, "")

\* apierror.IsNotFound
IsNotFound(err) == err.reason = "NotFound"

\* one call of a pass, as the pass's record of calls keeps it: what was called and
\* what came back
Call(call, got) == [call |-> call, obj |-> got.obj, err |-> got.err]

\* a cache's Get: the fault, else the object with that key, else not-found
CacheGet(objs, ns, n, call, fault) ==
    IF fault = call THEN [obj |-> Nil, err |-> Err("ServerError", call)]
    ELSE IF \E o \in objs : o.namespace = ns /\ o.name = n
         THEN [obj |-> Some(CHOOSE o \in objs : o.namespace = ns /\ o.name = n),
               err |-> NoError]
         ELSE [obj |-> Nil, err |-> Err("NotFound", call)]

\* Bootstrap(settingsCache, tokenHash): the bootstrap content provider
Bootstrap(tokenHash, fault) ==
    IF fault = "Bootstrap"
    THEN [data |-> "", err |-> Err("ServerError", "Bootstrap")]
    ELSE [data |-> "install(" \o ServerURL \o "," \o tokenHash \o ")", err |-> NoError]

-----------------------------------------------------------------------------
(* The controller. An operator that stands for a function of the handler    *)
(* returns what the function returns, and with it `calls`, the calls it     *)
(* issued in order with what each returned, and `update`, the object that   *)
(* a successful UpdateStatus wrote. A function is one operator for each     *)
(* stretch of its body between two calls, the later one taking what the     *)
(* call returned, which Then hands over.                                    *)

\* what precedes the calls of r
After(calls, r) == [r EXCEPT !.calls = calls \o @]

\* a call and what follows it: the body F of the function from the call's return x
\* on, the return evaluated once
Then(x, F(_)) == CHOOSE r \in {F(v) : v \in {x}} : TRUE

\* IsRKECluster as it would be if it looked at the kind alone
IsRKEClusterKindOnly(spec) ==
    IF spec.infrastructureRef = Nil THEN FALSE
    ELSE spec.infrastructureRef[1].kind = "RKECluster"

\* IsRKECluster(spec)
IsRKECluster(spec) ==
    IF spec.infrastructureRef = Nil THEN FALSE
    ELSE FromAPIVersionAndKind(spec.infrastructureRef[1].apiVersion,
                               spec.infrastructureRef[1].kind).group = SchemeGroup
         /\ spec.infrastructureRef[1].kind = "RKECluster"

\* the token as it would be if the secret's data were not looked at
TokenBytesIgnored(secret) == ""

\* secret.Data["token"]: the bytes under the key, no bytes when the key is absent
TokenBytes(secret) ==
    IF "token" \in DOMAIN secret.data THEN secret.data["token"] ELSE ""

\* getBootstrapSecret from the return of Bootstrap on: the Secret that wraps the data
BootstrapSecretFromData(namespace, name, tokenHash, b) ==
    IF b.err # NoError
    THEN [secret |-> Nil, err |-> b.err,
          calls |-> <<[call |-> "Bootstrap", obj |-> Some([tokenHash |-> tokenHash]),
                       err |-> b.err]>>]
    ELSE [secret |-> Some([kind |-> "Secret",
                           name |-> name,
                           namespace |-> namespace,
                           data |-> [value |-> b.data],
                           type |-> "rke.cattle.io/bootstrap"]),
          err |-> NoError,
          calls |-> <<[call |-> "Bootstrap", obj |-> Some([tokenHash |-> tokenHash]),
                       err |-> NoError]>>]

\* getBootstrapSecret from the digest of the token on
BootstrapSecretFromHash(namespace, name, tokenHash, fault) ==
    Then(Bootstrap(tokenHash, fault),
         LAMBDA b : BootstrapSecretFromData(namespace, name, tokenHash, b))

\* getBootstrapSecret from the return of secretCache.Get on
BootstrapSecretFromSecret(namespace, name, got, fault) ==
    IF got.err # NoError
    THEN [secret |-> Nil, err |-> got.err, calls |-> <<Call("secretCache.Get", got)>>]
    ELSE After(<<Call("secretCache.Get", got)>>,
               BootstrapSecretFromHash(namespace, name,
                                       Base64URL(Sha256(TokenBytes(got.obj[1]))), fault))

\* the body of the loop over sa.Secrets in getBootstrapSecret, for one reference;
\* every path through it returns
BootstrapSecretFromRef(sa, secretRef, namespace, name, fault) ==
    Then(CacheGet(CredentialSecrets, sa.namespace, secretRef, "secretCache.Get", fault),
         LAMBDA got : BootstrapSecretFromSecret(namespace, name, got, fault))

\* getBootstrapSecret as it would be if it took the first reference of the principal
\* without a look at how many there are: a principal without references is an error
BootstrapSecretFromPrincipalUnchecked(namespace, name, got, fault) ==
    IF IsNotFound(got.err)
    THEN [secret |-> Nil, err |-> NoError,
          calls |-> <<Call("serviceAccountCache.Get", got)>>]
    ELSE IF got.err # NoError
    THEN [secret |-> Nil, err |-> got.err,
          calls |-> <<Call("serviceAccountCache.Get", got)>>]
    ELSE IF Len(got.obj[1].secrets) = 0
    THEN [secret |-> Nil, err |-> Err("IndexOutOfRange", "sa.Secrets"),
          calls |-> <<Call("serviceAccountCache.Get", got)>>]
    ELSE After(<<Call("serviceAccountCache.Get", got)>>,
               BootstrapSecretFromRef(got.obj[1], got.obj[1].secrets[1], namespace, name,
                                      fault))

\* getBootstrapSecret from the return of serviceAccountCache.Get on; the loop over
\* sa.Secrets ends in its first round
BootstrapSecretFromPrincipal(namespace, name, got, fault) ==
    IF IsNotFound(got.err)
    THEN [secret |-> Nil, err |-> NoError,
          calls |-> <<Call("serviceAccountCache.Get", got)>>]
    ELSE IF got.err # NoError
    THEN [secret |-> Nil, err |-> got.err,
          calls |-> <<Call("serviceAccountCache.Get", got)>>]
    ELSE IF Len(got.obj[1].secrets) = 0
    THEN [secret |-> Nil, err |-> NoError,
          calls |-> <<Call("serviceAccountCache.Get", got)>>]
    ELSE After(<<Call("serviceAccountCache.Get", got)>>,
               BootstrapSecretFromRef(got.obj[1], got.obj[1].secrets[1], namespace, name,
                                      fault))

\* handler.getBootstrapSecret(namespace, name)
getBootstrapSecret(namespace, name, fault) ==
    Then(CacheGet(serviceAccounts, namespace, name, "serviceAccountCache.Get", fault),
         LAMBDA got : BootstrapSecretFromPrincipal(namespace, name, got, fault))

\* the principal of assignPlanSecret as it would be if the two name labels had their
\* values the wrong way round
PlanPrincipalLabelsSwapped(obj, secretName) ==
    [kind |-> "ServiceAccount",
     name |-> secretName,
     namespace |-> obj.namespace,
     labels |-> (ClusterNameLabel :> obj.name) @@
                (machineNameLabel :> obj.clusterName) @@
                (roleLabel :> rolePlan) @@
                (planSecret :> secretName),
     secrets |-> <<>>]

\* the principal of assignPlanSecret
PlanPrincipal(obj, secretName) ==
    [kind |-> "ServiceAccount",
     name |-> secretName,
     namespace |-> obj.namespace,
     labels |-> (ClusterNameLabel :> obj.clusterName) @@
                (machineNameLabel :> obj.name) @@
                (roleLabel :> rolePlan) @@
                (planSecret :> secretName),
     secrets |-> <<>>]

\* the secret of assignPlanSecret
PlanSecret(obj, secretName) ==
    [kind |-> "Secret",
     name |-> secretName,
     namespace |-> obj.namespace,
     labels |-> (machineNameLabel :> obj.name),
     data |-> <<>>,
     type |-> "rke.cattle.io/machine-plan"]

\* the role as it would be without the resource name: a grant on every secret of the
\* namespace
PlanRoleUnscoped(obj, secretName) ==
    [kind |-> "Role",
     name |-> secretName,
     namespace |-> obj.namespace,
     rules |-> <<[verbs |-> <<"watch", "get", "update", "list">>,
                  apiGroups |-> <<"">>,
                  resources |-> <<"secrets">>,
                  resourceNames |-> <<>>]>>]

\* the role of assignPlanSecret
PlanRole(obj, secretName) ==
    [kind |-> "Role",
     name |-> secretName,
     namespace |-> obj.namespace,
     rules |-> <<[verbs |-> <<"watch", "get", "update", "list">>,
                  apiGroups |-> <<"">>,
                  resources |-> <<"secrets">>,
                  resourceNames |-> <<secretName>>]>>]

\* the rolebinding as it would be with the principals of the namespace as its subject
PlanRoleBindingNamespace(obj, secretName, sa) ==
    [kind |-> "RoleBinding",
     name |-> secretName,
     namespace |-> obj.namespace,
     subjects |-> <<[kind |-> "Group",
                     name |-> "system:serviceaccounts:" \o sa.namespace,
                     namespace |-> ""]>>,
     roleRef |-> [apiGroup |-> RbacGroupName,
                  kind |-> "Role",
                  name |-> secretName]]

\* the rolebinding of assignPlanSecret, its subject the principal sa
PlanRoleBinding(obj, secretName, sa) ==
    [kind |-> "RoleBinding",
     name |-> secretName,
     namespace |-> obj.namespace,
     subjects |-> <<[kind |-> "ServiceAccount",
                     name |-> sa.name,
                     namespace |-> sa.namespace]>>,
     roleRef |-> [apiGroup |-> RbacGroupName,
                  kind |-> "Role",
                  name |-> secretName]]

\* the four objects of assignPlanSecret, all of them named secretName
PlanChannel(obj, secretName) ==
    <<PlanPrincipal(obj, secretName),
      PlanSecret(obj, secretName),
      PlanRole(obj, secretName),
      PlanRoleBinding(obj, secretName, PlanPrincipal(obj, secretName))>>

\* assignPlanSecret as it would be if it named the channel after the cluster
assignPlanSecretByCluster(obj) == PlanChannel(obj, "plan-" \o Sha256(obj.clusterName))

\* handler.assignPlanSecret(obj)
assignPlanSecret(obj) == PlanChannel(obj, PlanSecretFromMachine(obj))

\* the phase gate as it would be if it let every phase but the unset one through
InBootstrapPhaseAnySet(phase) == phase # ""

\* the phase gate of assignBootStrapSecret
InBootstrapPhase(phase) ==
    ~ (phase # MachinePhasePending /\ phase # MachinePhaseDeleting /\
       phase # MachinePhaseFailed /\ phase # MachinePhaseProvisioning)

\* the applicability gate as it would be if it looked at the kind alone
BootstrapAppliesKindOnly(obj) ==
    ~ (obj.configRef = Nil \/ obj.configRef[1].kind # "RKEBootstrap")

\* the applicability gate of assignBootStrapSecret
BootstrapApplies(obj) ==
    ~ (obj.configRef = Nil \/
       obj.configRef[1].apiVersion # bootstrapAPIVersion \/
       obj.configRef[1].kind # "RKEBootstrap")

\* the status update as it would be if the call were put off: nothing is written in
\* the pass
PublishUpdateDeferred(c0, copy, fault) ==
    IF fault = "rkeBootstrap.UpdateStatus"
    THEN [err |-> Err("ServerError", "rkeBootstrap.UpdateStatus"),
          calls |-> c0 \o <<[call |-> "rkeBootstrap.UpdateStatus", obj |-> Some(copy),
                             err |-> Err("ServerError", "rkeBootstrap.UpdateStatus")]>>,
          update |-> Nil]
    ELSE IF ~ \E b \in rkeBootstraps : b.namespace = copy.namespace /\ b.name = copy.name
    THEN [err |-> Err("NotFound", "rkeBootstrap.UpdateStatus"),
          calls |-> c0 \o <<[call |-> "rkeBootstrap.UpdateStatus", obj |-> Some(copy),
                             err |-> Err("NotFound", "rkeBootstrap.UpdateStatus")]>>,
          update |-> Nil]
    ELSE [err |-> NoError,
          calls |-> c0 \o <<[call |-> "rkeBootstrap.UpdateStatus", obj |-> Some(copy),
                             err |-> NoError]>>,
          update |-> Nil]

\* the status update of assignBootStrapSecret: UpdateStatus with a copy that names
\* the secret and is ready; it fails on the fault and for an object the store lacks
PublishUpdate(c0, copy, fault) ==
    IF fault = "rkeBootstrap.UpdateStatus"
    THEN [err |-> Err("ServerError", "rkeBootstrap.UpdateStatus"),
          calls |-> c0 \o <<[call |-> "rkeBootstrap.UpdateStatus", obj |-> Some(copy),
                             err |-> Err("ServerError", "rkeBootstrap.UpdateStatus")]>>,
          update |-> Nil]
    ELSE IF ~ \E b \in rkeBootstraps : b.namespace = copy.namespace /\ b.name = copy.name
    THEN [err |-> Err("NotFound", "rkeBootstrap.UpdateStatus"),
          calls |-> c0 \o <<[call |-> "rkeBootstrap.UpdateStatus", obj |-> Some(copy),
                             err |-> Err("NotFound", "rkeBootstrap.UpdateStatus")]>>,
          update |-> Nil]
    ELSE [err |-> NoError,
          calls |-> c0 \o <<[call |-> "rkeBootstrap.UpdateStatus", obj |-> Some(copy),
                             err |-> NoError]>>,
          update |-> Some(copy)]

\* the status update as it would be without the comparison of the name read with the
\* name of the secret
PublishReadAlways(bootstrapSecret, got, fault) ==
    IF got.err # NoError
    THEN [err |-> got.err, calls |-> <<Call("rkeBootstrapCache.Get", got)>>, update |-> Nil]
    ELSE PublishUpdate(<<Call("rkeBootstrapCache.Get", got)>>,
                       [got.obj[1] EXCEPT
                           !.status.dataSecretName = Some(bootstrapSecret.name),
                           !.status.ready = TRUE],
                       fault)

\* the status update as it would be if it were also made for a status that names the
\* secret and is not ready
PublishReadUnlessReady(bootstrapSecret, got, fault) ==
    IF got.err # NoError
    THEN [err |-> got.err, calls |-> <<Call("rkeBootstrapCache.Get", got)>>, update |-> Nil]
    ELSE IF got.obj[1].status.dataSecretName = Nil \/
            got.obj[1].status.dataSecretName[1] # bootstrapSecret.name \/
            ~ got.obj[1].status.ready
    THEN PublishUpdate(<<Call("rkeBootstrapCache.Get", got)>>,
                       [got.obj[1] EXCEPT
                           !.status.dataSecretName = Some(bootstrapSecret.name),
                           !.status.ready = TRUE],
                       fault)
    ELSE [err |-> NoError, calls |-> <<Call("rkeBootstrapCache.Get", got)>>, update |-> Nil]

\* the status update as it would be if it named the secret and left ready as read
PublishReadNameOnly(bootstrapSecret, got, fault) ==
    IF got.err # NoError
    THEN [err |-> got.err, calls |-> <<Call("rkeBootstrapCache.Get", got)>>, update |-> Nil]
    ELSE IF got.obj[1].status.dataSecretName = Nil \/
            got.obj[1].status.dataSecretName[1] # bootstrapSecret.name
    THEN PublishUpdate(<<Call("rkeBootstrapCache.Get", got)>>,
                       [got.obj[1] EXCEPT
                           !.status.dataSecretName = Some(bootstrapSecret.name)],
                       fault)
    ELSE [err |-> NoError, calls |-> <<Call("rkeBootstrapCache.Get", got)>>, update |-> Nil]

\* assignBootStrapSecret from the return of rkeBootstrapCache.Get on: the status is
\* written when it does not name the secret yet
PublishRead(bootstrapSecret, got, fault) ==
    IF got.err # NoError
    THEN [err |-> got.err, calls |-> <<Call("rkeBootstrapCache.Get", got)>>, update |-> Nil]
    ELSE IF got.obj[1].status.dataSecretName = Nil \/
            got.obj[1].status.dataSecretName[1] # bootstrapSecret.name
    THEN PublishUpdate(<<Call("rkeBootstrapCache.Get", got)>>,
                       [got.obj[1] EXCEPT
                           !.status.dataSecretName = Some(bootstrapSecret.name),
                           !.status.ready = TRUE],
                       fault)
    ELSE [err |-> NoError, calls |-> <<Call("rkeBootstrapCache.Get", got)>>, update |-> Nil]

\* the part of assignBootStrapSecret that follows a resolved bootstrap secret
PublishBootstrapSecret(obj, bootstrapSecret, fault) ==
    Then(CacheGet(rkeBootstrapCache, obj.namespace, obj.configRef[1].name,
                  "rkeBootstrapCache.Get", fault),
         LAMBDA got : PublishRead(bootstrapSecret, got, fault))

\* the return of assignBootStrapSecret after the status was handled
BootstrapPublished(sa, r, p) ==
    IF p.err # NoError
    THEN [secret |-> Nil, objs |-> <<>>, err |-> p.err, calls |-> r.calls \o p.calls,
          update |-> p.update]
    ELSE [secret |-> r.secret, objs |-> <<sa>>, err |-> NoError,
          calls |-> r.calls \o p.calls, update |-> p.update]

\* assignBootStrapSecret as it would be if it returned nothing at all without a
\* bootstrap secret
BootstrapResolvedOrNothing(obj, sa, r, fault) ==
    IF r.err # NoError
    THEN [secret |-> Nil, objs |-> <<>>, err |-> r.err, calls |-> r.calls, update |-> Nil]
    ELSE IF r.secret # Nil
    THEN Then(PublishBootstrapSecret(obj, r.secret[1], fault),
              LAMBDA p : BootstrapPublished(sa, r, p))
    ELSE [secret |-> Nil, objs |-> <<>>, err |-> NoError, calls |-> r.calls,
          update |-> Nil]

\* assignBootStrapSecret from the return of getBootstrapSecret on
BootstrapResolved(obj, sa, r, fault) ==
    IF r.err # NoError
    THEN [secret |-> Nil, objs |-> <<>>, err |-> r.err, calls |-> r.calls, update |-> Nil]
    ELSE IF r.secret # Nil
    THEN Then(PublishBootstrapSecret(obj, r.secret[1], fault),
              LAMBDA p : BootstrapPublished(sa, r, p))
    ELSE [secret |-> Nil, objs |-> <<sa>>, err |-> NoError, calls |-> r.calls,
          update |-> Nil]

\* the bootstrap principal as it would be if it took the name of the plan channel
BootstrapPrincipalPlanNamed(obj, secretName) ==
    [kind |-> "ServiceAccount",
     name |-> PlanSecretFromMachine(obj),
     namespace |-> obj.namespace,
     labels |-> (machineNameLabel :> obj.name) @@ (roleLabel :> roleBootstrap),
     secrets |-> <<>>]

\* the bootstrap principal of assignBootStrapSecret
BootstrapPrincipal(obj, secretName) ==
    [kind |-> "ServiceAccount",
     name |-> secretName,
     namespace |-> obj.namespace,
     labels |-> (machineNameLabel :> obj.name) @@ (roleLabel :> roleBootstrap),
     secrets |-> <<>>]

\* assignBootStrapSecret past its two gates, for the principal sa
BootstrapChannel(obj, sa, fault) ==
    Then(getBootstrapSecret(sa.namespace, sa.name, fault),
         LAMBDA r : BootstrapResolved(obj, sa, r, fault))

\* assignBootStrapSecret as it would be without the phase gate
assignBootStrapSecretAnyPhase(obj, fault) ==
    IF ~ BootstrapApplies(obj)
    THEN [secret |-> Nil, objs |-> <<>>, err |-> NoError, calls |-> <<>>, update |-> Nil]
    ELSE Then(BootstrapPrincipal(obj, SafeConcatName(obj.name, "machine", "bootstrap")),
              LAMBDA sa : BootstrapChannel(obj, sa, fault))

\* assignBootStrapSecret as it would be if it took the readiness back once the
\* machine has left the phases of the bootstrap
assignBootStrapSecretWithdrawing(obj, fault) ==
    IF ~ BootstrapApplies(obj)
    THEN [secret |-> Nil, objs |-> <<>>, err |-> NoError, calls |-> <<>>, update |-> Nil]
    ELSE IF ~ InBootstrapPhase(obj.status.phase)
    THEN [secret |-> Nil, objs |-> <<>>, err |-> NoError, calls |-> <<>>,
          update |-> Some([namespace |-> obj.namespace, name |-> obj.configRef[1].name,
                           status |-> [dataSecretName |-> Nil, ready |-> FALSE]])]
    ELSE Then(BootstrapPrincipal(obj, SafeConcatName(obj.name, "machine", "bootstrap")),
              LAMBDA sa : BootstrapChannel(obj, sa, fault))

\* handler.assignBootStrapSecret(obj)
assignBootStrapSecret(obj, fault) ==
    IF ~ BootstrapApplies(obj)
    THEN [secret |-> Nil, objs |-> <<>>, err |-> NoError, calls |-> <<>>, update |-> Nil]
    ELSE IF ~ InBootstrapPhase(obj.status.phase)
    THEN [secret |-> Nil, objs |-> <<>>, err |-> NoError, calls |-> <<>>, update |-> Nil]
    ELSE Then(BootstrapPrincipal(obj, SafeConcatName(obj.name, "machine", "bootstrap")),
              LAMBDA sa : BootstrapChannel(obj, sa, fault))

\* OnChange as it would be if it kept the plan channel when the bootstrap channel
\* failed
OnChangeResultPartial(status, objs, b) ==
    IF b.err # NoError
    THEN [result |-> objs, status |-> status, err |-> b.err, calls |-> b.calls,
          update |-> b.update]
    ELSE [result |-> objs \o b.secret \o b.objs, status |-> status, err |-> NoError,
          calls |-> b.calls, update |-> b.update]

\* OnChange as it would be if it returned the plan channel only along with a
\* bootstrap channel
OnChangeResultWithBootstrap(status, objs, b) ==
    IF b.err # NoError
    THEN [result |-> <<>>, status |-> status, err |-> b.err, calls |-> b.calls,
          update |-> b.update]
    ELSE [result |-> IF b.objs = <<>> THEN <<>> ELSE objs \o b.secret \o b.objs,
          status |-> status, err |-> NoError, calls |-> b.calls, update |-> b.update]

\* OnChange as it would be if it appended the bootstrap channel's objects before the
\* bootstrap secret
OnChangeResultPrincipalFirst(status, objs, b) ==
    IF b.err # NoError
    THEN [result |-> <<>>, status |-> status, err |-> b.err, calls |-> b.calls,
          update |-> b.update]
    ELSE [result |-> objs \o b.objs \o b.secret, status |-> status, err |-> NoError,
          calls |-> b.calls, update |-> b.update]

\* OnChange from the return of the two provisioners on
OnChangeResult(status, objs, b) ==
    IF b.err # NoError
    THEN [result |-> <<>>, status |-> status, err |-> b.err, calls |-> b.calls,
          update |-> b.update]
    ELSE [result |-> objs \o b.secret \o b.objs, status |-> status, err |-> NoError,
          calls |-> b.calls, update |-> b.update]

\* OnChange as it would be if it marked the machine of an unmanaged cluster
OnChangeClusterMarked(obj, status, got, fault) ==
    IF got.err # NoError
    THEN [result |-> <<>>, status |-> status, err |-> got.err,
          calls |-> <<Call("clusterCache.Get", got)>>, update |-> Nil]
    ELSE IF ~ IsRKECluster(got.obj[1].spec)
    THEN [result |-> <<>>, status |-> [status EXCEPT !.phase = "Unmanaged"],
          err |-> NoError, calls |-> <<Call("clusterCache.Get", got)>>, update |-> Nil]
    ELSE After(<<Call("clusterCache.Get", got)>>,
               Then(assignBootStrapSecret(obj, fault),
                    LAMBDA b : OnChangeResult(status, assignPlanSecret(obj), b)))

\* OnChange from the return of clusterCache.Get on
OnChangeCluster(obj, status, got, fault) ==
    IF got.err # NoError
    THEN [result |-> <<>>, status |-> status, err |-> got.err,
          calls |-> <<Call("clusterCache.Get", got)>>, update |-> Nil]
    ELSE IF ~ IsRKECluster(got.obj[1].spec)
    THEN [result |-> <<>>, status |-> status, err |-> NoError,
          calls |-> <<Call("clusterCache.Get", got)>>, update |-> Nil]
    ELSE After(<<Call("clusterCache.Get", got)>>,
               Then(assignBootStrapSecret(obj, fault),
                    LAMBDA b : OnChangeResult(status, assignPlanSecret(obj), b)))

\* handler.OnChange(obj, status)
OnChange(obj, status, fault) ==
    Then(CacheGet(clusters, obj.namespace, obj.clusterName, "clusterCache.Get", fault),
         LAMBDA got : OnChangeCluster(obj, status, got, fault))

\* the resolver as it would be if it took the name of the object for the name of
\* the machine
TriggerResolverByName(namespace, name, obj) ==
    IF obj.kind = "ServiceAccount" /\ machineNameLabel \in DOMAIN obj.labels
    THEN [keys |-> <<Key(obj.namespace, name)>>, err |-> NoError]
    ELSE [keys |-> <<>>, err |-> NoError]

\* the resolver as it would be without the look at the type of the object
TriggerResolverAnyKind(namespace, name, obj) ==
    IF machineNameLabel \in DOMAIN obj.labels
    THEN [keys |-> <<Key(obj.namespace, obj.labels[machineNameLabel])>>, err |-> NoError]
    ELSE [keys |-> <<>>, err |-> NoError]

\* the resolver that Register hands to relatedresource.Watch
TriggerResolver(namespace, name, obj) ==
    IF obj.kind = "ServiceAccount" /\ machineNameLabel \in DOMAIN obj.labels
    THEN [keys |-> <<Key(obj.namespace, obj.labels[machineNameLabel])>>, err |-> NoError]
    ELSE [keys |-> <<>>, err |-> NoError]

-----------------------------------------------------------------------------
(* The state machine: the dispatcher, the apply engine, the informer cache   *)
(* and the world around them. `last`, `streak` and `trig` are history: they  *)
(* describe the latest pass, or the latest call of the trigger, for as long  *)
(* as the world it ran in stands; a change of that world clears them.        *)

Machine(k, configRef, phase) ==
    [namespace |-> k.namespace, name |-> k.name, clusterName |-> ClusterName,
     configRef |-> configRef, status |-> [phase |-> phase]]

Cluster(infrastructureRef) ==
    [namespace |-> Namespace, name |-> ClusterName,
     spec |-> [infrastructureRef |-> infrastructureRef]]

RKEBootstrap(name, status) == [namespace |-> Namespace, name |-> name, status |-> status]

\* the principal every namespace holds, which no machine owns
DefaultServiceAccount ==
    [kind |-> "ServiceAccount", name |-> "default", namespace |-> Namespace,
     labels |-> <<>>, secrets |-> <<>>]

NoStatus == [dataSecretName |-> Nil, ready |-> FALSE]

\* the statuses an RKEBootstrap may hold before this controller writes it
InitialStatuses(m) ==
    {NoStatus,
     [dataSecretName |-> Some("old-bootstrap-secret"), ready |-> TRUE],
     [dataSecretName |-> Some(SafeConcatName(m.name, "machine", "bootstrap")),
      ready |-> FALSE]}

MachineKeys == DOMAIN machines

NoPass == [machine |-> Nil, fault |-> "none", out |-> Nil]
NoTrigger == [obj |-> Nil, keys |-> <<>>, err |-> NoError]

\* no pass of the machine is under way and none has returned yet
Idle == [pc |-> "idle", obj |-> Nil, fault |-> "none", alone |-> Nil, calls |-> <<>>,
         sa |-> Nil, r |-> Nil, got |-> Nil, out |-> Nil]

\* the state after construction, for the machines ms, clusters cs and RKEBootstraps bs
InitWorld(ms, cs, bs) ==
    /\ machines = ms
    /\ clusters = cs
    /\ serviceAccounts = {DefaultServiceAccount}
    /\ rkeBootstraps = bs
    /\ rkeBootstrapCache = bs
    /\ desired = [m \in DOMAIN ms |-> Nil]
    /\ applied = [m \in DOMAIN ms |-> <<>>]
    /\ queue = DOMAIN ms
    /\ last = NoPass
    /\ streak = 0
    /\ trig = NoTrigger
    /\ inflight = [m \in DOMAIN ms |-> Idle]

ManagedInfraRef == Some(Ref("rke.cattle.io/v1", "RKECluster", ClusterName))
ManagedConfigRef(bs) == Some(Ref(bootstrapAPIVersion, "RKEBootstrap", bs))

\* the worlds one machine may start in: any bootstrap config reference, or any
\* cluster (none, too), or its RKEBootstrap missing or in any initial status, each
\* with the rest of the world as a managed machine has it
Worlds ==
    {[ref |-> ref, cs |-> {Cluster(ManagedInfraRef)}, bs |-> {RKEBootstrap("bs1", NoStatus)}] :
        ref \in ConfigRefs("bs1")} \cup
    {[ref |-> ManagedConfigRef("bs1"), cs |-> cs, bs |-> {RKEBootstrap("bs1", NoStatus)}] :
        cs \in {{}} \cup {{Cluster(infra)} : infra \in InfraRefs}} \cup
    {[ref |-> ManagedConfigRef("bs1"), cs |-> {Cluster(ManagedInfraRef)}, bs |-> bs] :
        bs \in {{}} \cup {{RKEBootstrap("bs1", st)} : st \in InitialStatuses(M1)}}

Init ==
    \E w \in Worlds : InitWorld(M1 :> Machine(M1, w.ref, ""), w.cs, w.bs)

\* rkeBootstrap.UpdateStatus as it would be if the store took the status for every
\* RKEBootstrap of the namespace
UpdateStatusNamespace(store, update) ==
    IF update = Nil THEN store
    ELSE {IF b.namespace = update[1].namespace
          THEN [b EXCEPT !.status = update[1].status] ELSE b : b \in store}

\* rkeBootstrap.UpdateStatus, when it succeeds: the store takes the status handed in
UpdateStatus(store, update) ==
    IF update = Nil THEN store
    ELSE {IF b.namespace = update[1].namespace /\ b.name = update[1].name
          THEN [b EXCEPT !.status = update[1].status] ELSE b : b \in store}

\* One pass of the generating handler for machine m, up to the return of OnChange:
\* the dispatcher takes m from the queue and calls OnChange with the machine and its
\* status; an error leaves m on the queue for the retry, a desired set goes to the
\* apply engine and the status returned with it is the machine's from then on.
Reconcile(m, fault) ==
    /\ m \in queue
    /\ desired[m] = Nil
    /\ last' = [machine |-> Some(m), fault |-> fault,
                out |-> Some(OnChange(machines[m], machines[m].status, fault))]
    /\ rkeBootstraps' = UpdateStatus(rkeBootstraps, last'.out[1].update)
    /\ desired' = IF last'.out[1].err = NoError
                  THEN [desired EXCEPT ![m] = Some(last'.out[1].result)] ELSE desired
    /\ queue' = IF last'.out[1].err = NoError THEN queue \ {m} ELSE queue
    /\ streak' = IF last.machine = Some(m) /\ last.fault = fault THEN 2 ELSE 1
    /\ trig' = NoTrigger
    /\ machines' = IF last'.out[1].err = NoError
                   THEN [machines EXCEPT ![m].status = last'.out[1].status] ELSE machines
    /\ UNCHANGED <<clusters, serviceAccounts, rkeBootstrapCache, applied>>
    /\ UNCHANGED inflight

Identity(o) == <<o.kind, o.namespace, o.name>>

\* the objects of kind k in the list objs
OfKind(objs, k) == {objs[i] : i \in {j \in 1..Len(objs) : objs[j].kind = k}}

\* The apply engine, for the desired set of m's pass: the objects of the set exist
\* afterwards, and those it applied for m before that are missing from the set are
\* deleted. A principal that exists already keeps the credential-secret references
\* the token controller gave it.
Apply(m) ==
    /\ desired[m] # Nil
    /\ LET wantSA == OfKind(desired[m][1], "ServiceAccount")
           hadSA == OfKind(applied[m], "ServiceAccount")
           pruned == {Identity(o) : o \in hadSA} \ {Identity(o) : o \in wantSA}
           kept == {sa \in serviceAccounts : Identity(sa) \notin pruned}
           created == {o \in wantSA : Identity(o) \notin {Identity(sa) : sa \in kept}}
       IN  serviceAccounts' = kept \cup created
    /\ applied' = [applied EXCEPT ![m] = desired[m][1]]
    /\ desired' = [desired EXCEPT ![m] = Nil]
    /\ UNCHANGED <<machines, clusters, rkeBootstraps, rkeBootstrapCache, queue, last,
                   streak, trig>>
    /\ UNCHANGED inflight

\* The informer cache of the RKEBootstraps catches up with the store: the passes
\* read another world from now on.
CacheSync ==
    /\ rkeBootstrapCache # rkeBootstraps
    /\ rkeBootstrapCache' = rkeBootstraps
    /\ last' = NoPass
    /\ streak' = 0
    /\ trig' = NoTrigger
    /\ UNCHANGED <<machines, clusters, serviceAccounts, rkeBootstraps, desired, applied,
                   queue>>
    /\ UNCHANGED inflight

\* The dispatcher's periodic resync enqueues every machine again.
Resync ==
    /\ queue # MachineKeys
    /\ queue' = MachineKeys
    /\ UNCHANGED <<machines, clusters, serviceAccounts, rkeBootstraps, rkeBootstrapCache,
                   desired, applied, last, streak, trig>>
    /\ UNCHANGED inflight

\* the objects a change event may hand to the resolver, which takes any
\* runtime.Object: the principals of the store, and for an object that is no
\* principal the secrets the apply engine holds, the plan secrets with their
\* machine-name label among them
EventObjects ==
    serviceAccounts \cup UNION {OfKind(applied[m], "Secret") : m \in MachineKeys}

\* relatedresource.Watch: a change event for obj runs the resolver, and the keys it
\* returns are enqueued for the machine controller.
TriggerEvent(obj) ==
    /\ trig' = [obj |-> Some(obj),
                keys |-> TriggerResolver(obj.namespace, obj.name, obj).keys,
                err |-> TriggerResolver(obj.namespace, obj.name, obj).err]
    /\ queue' = queue \cup ({trig'.keys[i] : i \in 1..Len(trig'.keys)} \cap MachineKeys)
    /\ last' = NoPass
    /\ streak' = 0
    /\ UNCHANGED <<machines, clusters, serviceAccounts, rkeBootstraps,
                   rkeBootstrapCache, desired, applied>>
    /\ UNCHANGED inflight

\* The machine controller of cluster-api moves the machine to another phase; the
\* change enqueues the machine.
SetPhase(m, phase) ==
    /\ machines[m].status.phase # phase
    /\ machines' = [machines EXCEPT ![m].status.phase = phase]
    /\ queue' = queue \cup {m}
    /\ last' = NoPass
    /\ streak' = 0
    /\ trig' = NoTrigger
    /\ UNCHANGED <<clusters, serviceAccounts, rkeBootstraps, rkeBootstrapCache, desired,
                   applied>>
    /\ UNCHANGED inflight

\* The token controller attaches one more credential-secret to a bootstrap principal.
AttachCredential(sa, secretRef) ==
    /\ roleLabel \in DOMAIN sa.labels
    /\ sa.labels[roleLabel] = roleBootstrap
    /\ Len(sa.secrets) < MaxRefs
    /\ \A i \in 1..Len(sa.secrets) : sa.secrets[i] # secretRef
    /\ serviceAccounts' = (serviceAccounts \ {sa}) \cup
                          {[sa EXCEPT !.secrets = Append(sa.secrets, secretRef)]}
    /\ last' = NoPass
    /\ streak' = 0
    /\ trig' = NoTrigger
    /\ UNCHANGED <<machines, clusters, rkeBootstraps, rkeBootstrapCache, desired, applied,
                   queue>>
    /\ UNCHANGED inflight

Next ==
    \/ \E m \in MachineKeys, fault \in Faults : Reconcile(m, fault)
    \/ \E m \in MachineKeys : Apply(m)
    \/ CacheSync
    \/ Resync
    \/ \E obj \in EventObjects : TriggerEvent(obj)
    \/ \E m \in MachineKeys, phase \in Phases : SetPhase(m, phase)
    \/ \E sa \in serviceAccounts, secretRef \in SecretRefNames : AttachCredential(sa, secretRef)

Spec == Init /\ [][Next]_vars

-----------------------------------------------------------------------------
(* A fleet: two managed machines of one cluster side by side, the one with   *)
(* the short and the one with the long name, both waiting for their          *)
(* bootstrap, in a world without faults.                                     *)

FleetSecretRefNames == {"token-a"}

InitFleet ==
    InitWorld((M1 :> Machine(M1, ManagedConfigRef("bs1"), MachinePhasePending)) @@
              (M2 :> Machine(M2, ManagedConfigRef("bs2"), MachinePhasePending)),
              {Cluster(ManagedInfraRef)},
              {RKEBootstrap("bs1", NoStatus), RKEBootstrap("bs2", NoStatus)})

NextFleet ==
    \/ \E m \in MachineKeys : Reconcile(m, "none")
    \/ \E m \in MachineKeys : Apply(m)
    \/ CacheSync
    \/ Resync
    \/ \E obj \in EventObjects : TriggerEvent(obj)
    \/ \E sa \in serviceAccounts, secretRef \in FleetSecretRefNames :
           AttachCredential(sa, secretRef)

SpecFleet == InitFleet /\ [][NextFleet]_vars

-----------------------------------------------------------------------------
(* The credential arrives: the fleet with nothing to enqueue a machine but   *)
(* the change event of a principal. The attachment of a credential-secret    *)
(* and the change event it raises are one step here: the watch delivers the  *)
(* event of every write to a principal. The dispatcher runs a machine that   *)
(* is on the queue, retries after an error, and a call does not fail         *)
(* forever; the apply engine and the informer cache do their work.           *)

\* The token controller attaches a credential-secret to a bootstrap principal, and
\* relatedresource.Watch runs the resolver for the changed principal and enqueues the
\* keys it returns.
AttachCredentialEvent(sa, secretRef) ==
    /\ roleLabel \in DOMAIN sa.labels
    /\ sa.labels[roleLabel] = roleBootstrap
    /\ Len(sa.secrets) < MaxRefs
    /\ \A i \in 1..Len(sa.secrets) : sa.secrets[i] # secretRef
    /\ serviceAccounts' = (serviceAccounts \ {sa}) \cup
                          {[sa EXCEPT !.secrets = Append(sa.secrets, secretRef)]}
    /\ trig' = [obj |-> Some([sa EXCEPT !.secrets = Append(sa.secrets, secretRef)]),
                keys |-> TriggerResolver(sa.namespace, sa.name, sa).keys,
                err |-> TriggerResolver(sa.namespace, sa.name, sa).err]
    /\ queue' = queue \cup ({trig'.keys[i] : i \in 1..Len(trig'.keys)} \cap MachineKeys)
    /\ last' = NoPass
    /\ streak' = 0
    /\ UNCHANGED <<machines, clusters, rkeBootstraps, rkeBootstrapCache, desired, applied>>
    /\ UNCHANGED inflight

AttachSecretRefNames == {"token-a", "token-b"}

NextAttach ==
    \/ \E m \in MachineKeys, fault \in Faults : Reconcile(m, fault)
    \/ \E m \in MachineKeys : Apply(m)
    \/ CacheSync
    \/ \E sa \in serviceAccounts, secretRef \in AttachSecretRefNames :
           AttachCredentialEvent(sa, secretRef)

FairAttach ==
    /\ \A m \in {M1, M2} : WF_vars(Reconcile(m, "none"))
    /\ \A m \in {M1, M2} : WF_vars(Apply(m))
    /\ WF_vars(CacheSync)

SpecAttach == InitFleet /\ [][NextAttach]_vars /\ FairAttach

-----------------------------------------------------------------------------
(* The bootstrap ends: one managed machine that goes through its phases,     *)
(* in a cluster whose infrastructure reference may change. The dispatcher    *)
(* runs a machine that is on the queue and resyncs, the apply engine         *)
(* applies what a pass returned.                                             *)

\* the infrastructure references the cluster goes through
PruneInfraRefs == {ManagedInfraRef, Some(Ref("rke.cattle.io/v1", "AKSCluster", ClusterName))}

\* The cluster gets another infrastructure reference. The machine handler watches no
\* Cluster: nothing is enqueued.
SetInfrastructure(infra) ==
    /\ clusters # {Cluster(infra)}
    /\ clusters' = {Cluster(infra)}
    /\ last' = NoPass
    /\ streak' = 0
    /\ trig' = NoTrigger
    /\ UNCHANGED <<machines, serviceAccounts, rkeBootstraps, rkeBootstrapCache, desired,
                   applied, queue>>
    /\ UNCHANGED inflight

InitPrune ==
    InitWorld(M1 :> Machine(M1, ManagedConfigRef("bs1"), MachinePhasePending),
              {Cluster(ManagedInfraRef)},
              {RKEBootstrap("bs1", NoStatus)})

NextPrune ==
    \/ \E m \in MachineKeys, fault \in Faults : Reconcile(m, fault)
    \/ \E m \in MachineKeys : Apply(m)
    \/ CacheSync
    \/ Resync
    \/ \E m \in MachineKeys, phase \in Phases : SetPhase(m, phase)
    \/ \E infra \in PruneInfraRefs : SetInfrastructure(infra)
    \/ \E sa \in serviceAccounts, secretRef \in FleetSecretRefNames :
           AttachCredential(sa, secretRef)

FairPrune ==
    /\ WF_vars(Reconcile(M1, "none"))
    /\ WF_vars(Apply(M1))
    /\ WF_vars(Resync)

SpecPrune == InitPrune /\ [][NextPrune]_vars /\ FairPrune

-----------------------------------------------------------------------------
(* The closed loop: the fleet with the apply engine's writes to principals   *)
(* coming back as change events. A pass hands its desired set to the apply   *)
(* engine, the principals the engine creates or deletes raise change events, *)
(* the resolver maps them to machine keys, and the dispatcher runs those     *)
(* machines again. The token controller attaches its credential-secrets,     *)
(* finitely many, and the dispatcher may resync at any time.                 *)

\* the keys the resolver returns for the change events of the principals sas
TriggeredKeys(sas) ==
    UNION {{TriggerResolver(sa.namespace, sa.name, sa).keys[i] :
                i \in 1..Len(TriggerResolver(sa.namespace, sa.name, sa).keys)} : sa \in sas}

\* the principals of the store after the apply of m's desired set
AppliedPrincipals(m) ==
    LET wantSA == OfKind(desired[m][1], "ServiceAccount")
        hadSA == OfKind(applied[m], "ServiceAccount")
        pruned == {Identity(o) : o \in hadSA} \ {Identity(o) : o \in wantSA}
        kept == {sa \in serviceAccounts : Identity(sa) \notin pruned}
        created == {o \in wantSA : Identity(o) \notin {Identity(sa) : sa \in kept}}
    IN  kept \cup created

\* The apply engine applies the desired set of m's pass, and relatedresource.Watch
\* runs the resolver for every principal the apply created or deleted and enqueues
\* the keys it returns.
ApplyEvent(m) ==
    /\ desired[m] # Nil
    /\ serviceAccounts' = AppliedPrincipals(m)
    /\ applied' = [applied EXCEPT ![m] = desired[m][1]]
    /\ desired' = [desired EXCEPT ![m] = Nil]
    /\ queue' = queue \cup
                (TriggeredKeys((serviceAccounts' \ serviceAccounts) \cup
                               (serviceAccounts \ serviceAccounts')) \cap MachineKeys)
    /\ UNCHANGED <<machines, clusters, rkeBootstraps, rkeBootstrapCache, last, streak,
                   trig>>
    /\ UNCHANGED inflight

NextLoop ==
    \/ \E m \in MachineKeys : Reconcile(m, "none")
    \/ \E m \in MachineKeys : ApplyEvent(m)
    \/ CacheSync
    \/ Resync
    \/ \E sa \in serviceAccounts, secretRef \in AttachSecretRefNames :
           AttachCredentialEvent(sa, secretRef)

FairLoop ==
    /\ \A m \in {M1, M2} : WF_vars(Reconcile(m, "none"))
    /\ \A m \in {M1, M2} : WF_vars(ApplyEvent(m))
    /\ WF_vars(CacheSync)

SpecLoop == InitFleet /\ [][NextLoop]_vars /\ FairLoop

-----------------------------------------------------------------------------
(* The worker pool: the passes of two machines run side by side, each call   *)
(* of a pass a step of its own, so that the calls of the two passes          *)
(* interleave in any order; no lock is taken. `inflight` holds for a machine *)
(* the pass under way: the machine as the dispatcher handed it over, what    *)
(* the calls so far returned, and `alone`, what the pass returns when it     *)
(* runs without a step of anything else in between. The credential-secrets   *)
(* and the setting are fixed, so the calls of getBootstrapSecret after the   *)
(* principal lookup read nothing another step can change and are one step    *)
(* with it. The apply engine applies the desired set a pass returned.        *)

\* the calls a pass of the pool may fail in
PoolFaults == {"none", "rkeBootstrapCache.Get", "rkeBootstrap.UpdateStatus"}

\* the pass f at its return from OnChange, with the bootstrap channel's return b
Returning(f, b) ==
    [f EXCEPT !.pc = "return",
              !.out = Some(After(f.calls,
                                 OnChangeResult(f.obj.status, assignPlanSecret(f.obj), b)))]

\* OnChange from the return of clusterCache.Get to the next call: the pass returns
\* when the lookup failed, the cluster is not of the managed kind or a gate of
\* assignBootStrapSecret is closed, and goes on to the principal lookup otherwise
AfterCluster(f, got) ==
    IF got.err # NoError
    THEN [f EXCEPT !.pc = "return",
                   !.out = Some(OnChangeCluster(f.obj, f.obj.status, got, f.fault))]
    ELSE IF ~ IsRKECluster(got.obj[1].spec) \/ ~ BootstrapApplies(f.obj) \/
            ~ InBootstrapPhase(f.obj.status.phase)
    THEN [f EXCEPT !.pc = "return",
                   !.out = Some(OnChangeCluster(f.obj, f.obj.status, got, f.fault))]
    ELSE [f EXCEPT !.pc = "serviceAccountCache.Get",
                   !.calls = <<Call("clusterCache.Get", got)>>,
                   !.sa = Some(BootstrapPrincipal(f.obj, SafeConcatName(f.obj.name, "machine",
                                                                        "bootstrap")))]

\* assignBootStrapSecret from the return of getBootstrapSecret to the next call: the
\* pass returns on an error and without a bootstrap secret, and goes on to read the
\* RKEBootstrap otherwise
AfterSecret(f, r) ==
    IF r.err # NoError \/ r.secret = Nil
    THEN Returning(f, BootstrapResolved(f.obj, f.sa[1], r, f.fault))
    ELSE [f EXCEPT !.pc = "rkeBootstrapCache.Get", !.r = Some(r)]

\* getBootstrapSecret from the return of serviceAccountCache.Get on
AfterPrincipal(f, got) ==
    Then(BootstrapSecretFromPrincipal(f.sa[1].namespace, f.sa[1].name, got, f.fault),
         LAMBDA r : AfterSecret(f, r))

\* assignBootStrapSecret from the return of rkeBootstrapCache.Get to the next call:
\* the pass returns when the lookup failed or the status names the secret, and goes
\* on to the status update otherwise
AfterConfig(f, got) ==
    IF got.err # NoError
    THEN Returning(f, BootstrapPublished(f.sa[1], f.r[1],
                                         PublishRead(f.r[1].secret[1], got, f.fault)))
    ELSE IF ~ (got.obj[1].status.dataSecretName = Nil \/
               got.obj[1].status.dataSecretName[1] # f.r[1].secret[1].name)
    THEN Returning(f, BootstrapPublished(f.sa[1], f.r[1],
                                         PublishRead(f.r[1].secret[1], got, f.fault)))
    ELSE [f EXCEPT !.pc = "rkeBootstrap.UpdateStatus", !.got = Some(got)]

\* assignBootStrapSecret from the return p of the status update on
AfterUpdate(f, p) == Returning(f, BootstrapPublished(f.sa[1], f.r[1], p))

\* A worker takes m from the queue and calls OnChange with the machine and its
\* status.
BeginPass(m, fault) ==
    /\ m \in queue
    /\ desired[m] = Nil
    /\ inflight[m].pc = "idle"
    /\ inflight' = [inflight EXCEPT ![m] =
                       [Idle EXCEPT !.pc = "clusterCache.Get",
                                    !.obj = machines[m],
                                    !.fault = fault,
                                    !.alone = Some(OnChange(machines[m], machines[m].status,
                                                            fault))]]
    /\ queue' = queue \ {m}
    /\ UNCHANGED <<machines, clusters, serviceAccounts, rkeBootstraps, rkeBootstrapCache,
                   desired, applied, last, streak, trig>>

\* h.clusterCache.Get(obj.Namespace, obj.Spec.ClusterName)
GetCluster(m) ==
    /\ inflight[m].pc = "clusterCache.Get"
    /\ inflight' = [inflight EXCEPT ![m] =
                       Then(CacheGet(clusters, @.obj.namespace, @.obj.clusterName,
                                     "clusterCache.Get", @.fault),
                            LAMBDA got : AfterCluster(inflight[m], got))]
    /\ UNCHANGED <<machines, clusters, serviceAccounts, rkeBootstraps, rkeBootstrapCache,
                   desired, applied, queue, last, streak, trig>>

\* h.serviceAccountCache.Get(namespace, name), and the rest of getBootstrapSecret
GetPrincipal(m) ==
    /\ inflight[m].pc = "serviceAccountCache.Get"
    /\ inflight' = [inflight EXCEPT ![m] =
                       Then(CacheGet(serviceAccounts, @.sa[1].namespace, @.sa[1].name,
                                     "serviceAccountCache.Get", @.fault),
                            LAMBDA got : AfterPrincipal(inflight[m], got))]
    /\ UNCHANGED <<machines, clusters, serviceAccounts, rkeBootstraps, rkeBootstrapCache,
                   desired, applied, queue, last, streak, trig>>

\* h.rkeBootstrapCache.Get(obj.Namespace, obj.Spec.Bootstrap.ConfigRef.Name)
GetBootstrapConfig(m) ==
    /\ inflight[m].pc = "rkeBootstrapCache.Get"
    /\ inflight' = [inflight EXCEPT ![m] =
                       Then(CacheGet(rkeBootstrapCache, @.obj.namespace,
                                     @.obj.configRef[1].name, "rkeBootstrapCache.Get",
                                     @.fault),
                            LAMBDA got : AfterConfig(inflight[m], got))]
    /\ UNCHANGED <<machines, clusters, serviceAccounts, rkeBootstraps, rkeBootstrapCache,
                   desired, applied, queue, last, streak, trig>>

\* h.rkeBootstrap.UpdateStatus(rkeBootstrap), with the copy of the RKEBootstrap the
\* pass read
PutStatus(m) ==
    /\ inflight[m].pc = "rkeBootstrap.UpdateStatus"
    /\ inflight' = [inflight EXCEPT ![m] =
                       Then(PublishRead(@.r[1].secret[1], @.got[1], @.fault),
                            LAMBDA p : AfterUpdate(inflight[m], p))]
    /\ rkeBootstraps' =
           UpdateStatus(rkeBootstraps, inflight'[m].out[1].update)
    /\ UNCHANGED <<machines, clusters, serviceAccounts, rkeBootstrapCache, desired,
                   applied, queue, last, streak, trig>>

\* OnChange returns: an error puts m back on the queue for the retry, a desired set
\* goes to the apply engine and the status returned with it is the machine's from
\* then on.
ReturnPass(m) ==
    /\ inflight[m].pc = "return"
    /\ inflight' = [inflight EXCEPT ![m].pc = "idle"]
    /\ last' = [machine |-> Some(m), fault |-> inflight[m].fault, out |-> inflight[m].out]
    /\ desired' = IF inflight[m].out[1].err = NoError
                  THEN [desired EXCEPT ![m] = Some(inflight[m].out[1].result)] ELSE desired
    /\ queue' = IF inflight[m].out[1].err = NoError THEN queue ELSE queue \cup {m}
    /\ streak' = IF last.machine = Some(m) /\ last.fault = inflight[m].fault THEN 2 ELSE 1
    /\ trig' = NoTrigger
    /\ machines' = IF inflight[m].out[1].err = NoError
                   THEN [machines EXCEPT ![m].status = inflight[m].out[1].status]
                   ELSE machines
    /\ UNCHANGED <<clusters, serviceAccounts, rkeBootstraps, rkeBootstrapCache, applied>>

\* the bootstrap principal of machine k as the apply engine and the token controller
\* left it, with those credential-secrets
ExistingPrincipal(k, secrets) ==
    [BootstrapPrincipal(Machine(k, Nil, ""), SafeConcatName(k.name, "machine", "bootstrap"))
         EXCEPT !.secrets = secrets]

\* the principals the store may hold of machine k when the pool starts
PoolPrincipals(k) == {{}, {ExistingPrincipal(k, <<"token-a">>)}}

\* two machines of one managed cluster wait for their bootstrap, each with an
\* RKEBootstrap of its own in any initial status, its bootstrap principal with a
\* credential-secret or not there yet
InitPool ==
    \E sa1 \in PoolPrincipals(M1), sa2 \in PoolPrincipals(M2),
       st1 \in InitialStatuses(M1), st2 \in InitialStatuses(M2) :
        /\ machines = (M1 :> Machine(M1, ManagedConfigRef("bs1"), MachinePhasePending)) @@
                      (M2 :> Machine(M2, ManagedConfigRef("bs2"), MachinePhaseProvisioning))
        /\ clusters = {Cluster(ManagedInfraRef)}
        /\ serviceAccounts = {DefaultServiceAccount} \cup sa1 \cup sa2
        /\ rkeBootstraps = {RKEBootstrap("bs1", st1), RKEBootstrap("bs2", st2)}
        /\ rkeBootstrapCache = rkeBootstraps
        /\ desired = [m \in {M1, M2} |-> Nil]
        /\ applied = [m \in {M1, M2} |-> <<>>]
        /\ queue = {M1, M2}
        /\ last = NoPass
        /\ streak = 0
        /\ trig = NoTrigger
        /\ inflight = [m \in {M1, M2} |-> Idle]

NextPool ==
    \/ \E m \in MachineKeys, fault \in PoolFaults : BeginPass(m, fault)
    \/ \E m \in MachineKeys : GetCluster(m)
    \/ \E m \in MachineKeys : GetPrincipal(m)
    \/ \E m \in MachineKeys : GetBootstrapConfig(m)
    \/ \E m \in MachineKeys : PutStatus(m)
    \/ \E m \in MachineKeys : ReturnPass(m)
    \/ \E m \in MachineKeys : Apply(m)
    \/ CacheSync

SpecPool == InitPool /\ [][NextPool]_vars

-----------------------------------------------------------------------------

(* The claims. `last` is the latest pass, and the world it ran in still      *)
(* stands while it is set: the machine is as the pass saw it, and so are the *)
(* caches, but for the principals the apply engine made since.               *)

Passed == last.machine # Nil
PassOut == last.out[1]
PassMachine == machines[last.machine[1]]

\* the calls named call among those a pass issued
CallsOf(out, call) ==
    {out.calls[i] : i \in {j \in 1..Len(out.calls) : out.calls[j].call = call}}
Issued(out, call) == CallsOf(out, call) # {}

Elems(seq) == {seq[i] : i \in 1..Len(seq)}

\* a principal, a plan secret, a role and a role-binding, in this order, of one name
\* and in the namespace ns
IsPlanTuple(objs, ns) ==
    /\ Len(objs) = 4
    /\ objs[1].kind = "ServiceAccount" /\ objs[2].kind = "Secret"
    /\ objs[3].kind = "Role" /\ objs[4].kind = "RoleBinding"
    /\ objs[2].type = "rke.cattle.io/machine-plan"
    /\ \A i \in 1..4 : objs[i].name = objs[1].name /\ objs[i].namespace = ns

IsBootstrapPrincipal(o) ==
    o.kind = "ServiceAccount" /\ o.labels[roleLabel] = roleBootstrap
IsBootstrapSecret(o) == o.kind = "Secret" /\ o.type = "rke.cattle.io/bootstrap"

\* the pass found the cluster, and the cluster is of the managed kind
PassManaged ==
    /\ Passed
    /\ PassOut.calls[1].err = NoError
    /\ PassOut.calls[1].obj[1].spec.infrastructureRef =
           Some(Ref("rke.cattle.io/v1", "RKECluster", ClusterName))

ClusterGate ==
    (/\ Passed
     /\ PassOut.calls[1].err = NoError
     /\ PassOut.calls[1].obj[1].spec.infrastructureRef \in
            {Nil,
             Some(Ref("rke.cattle.io/v1", "AKSCluster", ClusterName)),
             Some(Ref("infrastructure.cluster.x-k8s.io/v1alpha4", "RKECluster", ClusterName)),
             Some(Ref("v1", "RKECluster", ClusterName))})
    => (/\ PassOut.result = <<>>
        /\ PassOut.err = NoError
        /\ Len(PassOut.calls) = 1
        /\ PassOut.update = Nil)

\* a pass of a machine with a bootstrap config reference, in a cluster of the managed
\* kind in another API group, that returned nothing
WitnessClusterGate ==
    /\ Passed
    /\ PassOut.calls[1].obj =
           Some(Cluster(Some(Ref("infrastructure.cluster.x-k8s.io/v1alpha4", "RKECluster",
                                 ClusterName))))
    /\ PassMachine.status.phase = MachinePhaseProvisioning
    /\ PassOut.result = <<>> /\ PassOut.err = NoError

\* C3 (phase gate): for a managed machine with a matching bootstrap config
\* reference, a pass returns a bootstrap principal or secret, or issues a status
\* update, only in the phases Pending, Deleting, Failed and Provisioning; in every
\* other phase, the unset one too, it returns no error and exactly the plan-channel
\* 4-tuple, and issues no call but the cluster lookup.
PhaseGate ==
    (PassManaged /\
     PassMachine.configRef = Some(Ref("rke.cattle.io/v1", "RKEBootstrap", "bs1")))
    => IF PassMachine.status.phase \in {"Pending", "Deleting", "Failed", "Provisioning"}
       THEN PassOut.err = NoError =>
                \E o \in Elems(PassOut.result) : IsBootstrapPrincipal(o)
       ELSE /\ PassOut.err = NoError
            /\ IsPlanTuple(PassOut.result, PassMachine.namespace)
            /\ Len(PassOut.calls) = 1
            /\ PassOut.update = Nil

\* a pass of a Running machine whose principal holds a credential-secret, that
\* returned the plan channel alone
WitnessPhaseGate ==
    /\ PassManaged
    /\ PassMachine.configRef = Some(Ref("rke.cattle.io/v1", "RKEBootstrap", "bs1"))
    /\ PassMachine.status.phase = "Running"
    /\ \E sa \in serviceAccounts : sa.name = "m1-machine-bootstrap" /\ Len(sa.secrets) > 0
    /\ Len(PassOut.result) = 4

\* C4 (status write suppression): a pass issues an UpdateStatus call only after it
\* read the RKEBootstrap, and only if the dataSecretName it read is unset or differs
\* from the name of the bootstrap secret it resolved; when the name read equals the
\* resolved name it issues none, whatever ready is.
StatusWriteSuppression ==
    Passed =>
        /\ Issued(PassOut, "rkeBootstrap.UpdateStatus") =>
               \E c \in CallsOf(PassOut, "rkeBootstrapCache.Get") :
                   /\ c.err = NoError
                   /\ \/ c.obj[1].status.dataSecretName = Nil
                      \/ c.obj[1].status.dataSecretName[1] #
                             PassMachine.name \o "-machine-bootstrap"
        /\ \A c \in CallsOf(PassOut, "rkeBootstrapCache.Get") :
               (c.err = NoError /\
                c.obj[1].status.dataSecretName =
                    Some(PassMachine.name \o "-machine-bootstrap"))
               => ~ Issued(PassOut, "rkeBootstrap.UpdateStatus")

\* a pass that resolved the bootstrap secret, read a status that names it and is not
\* ready, and left the status alone
WitnessStatusWriteSuppression ==
    /\ Passed
    /\ \E o \in Elems(PassOut.result) : IsBootstrapSecret(o)
    /\ \E c \in CallsOf(PassOut, "rkeBootstrapCache.Get") :
           c.obj[1].status = [dataSecretName |-> Some("m1-machine-bootstrap"),
                              ready |-> FALSE]
    /\ ~ Issued(PassOut, "rkeBootstrap.UpdateStatus")
    /\ \E b \in rkeBootstraps : b.name = "bs1" /\ ~ b.status.ready

\* C5 (trigger mapping): a call of the trigger's resolver returns no error; for a
\* principal that carries the owning-machine-name label it returns exactly one key,
\* the principal's namespace and the value of the label, and that machine is
\* enqueued; for a principal without the label and for an object that is no
\* principal it returns no key.
TriggerMapping ==
    trig.obj # Nil =>
        /\ trig.err = NoError
        /\ IF trig.obj[1].kind = "ServiceAccount" /\
              "rke.cattle.io/machine-name" \in DOMAIN trig.obj[1].labels
           THEN /\ trig.keys =
                       <<[namespace |-> trig.obj[1].namespace,
                          name |-> trig.obj[1].labels["rke.cattle.io/machine-name"]]>>
                /\ trig.keys[1] \in MachineKeys => trig.keys[1] \in queue
           ELSE trig.keys = <<>>

\* the event of the bootstrap principal of the machine with the long name, whose own
\* name is not the machine's, gave the key of that machine
WitnessTriggerMapping ==
    /\ trig.obj # Nil
    /\ trig.obj[1].kind = "ServiceAccount"
    /\ trig.obj[1].labels = ("rke.cattle.io/machine-name" :> LongName) @@
                            ("rke.cattle.io/service-account-role" :> "bootstrap")
    /\ trig.keys = <<M2>>
    /\ M2 \in queue

\* the desired sets at hand: the one of the latest pass, those waiting for the apply
\* engine and those it applied
EmittedFor(m) ==
    {applied[m]} \cup
    (IF desired[m] # Nil THEN {desired[m][1]} ELSE {}) \cup
    (IF last.machine = Some(m) THEN {PassOut.result} ELSE {})

\* C6 (least privilege): every Role of every desired set has exactly one rule, which
\* grants exactly the verbs watch, get, update and list on the resource secrets, and
\* names exactly one resource, the Role's own name, which is the name of the plan
\* secret of the set; no Role is without resource names or has a wildcard.
LeastPrivilege ==
    \A m \in MachineKeys : \A objs \in EmittedFor(m) : \A o \in Elems(objs) :
        o.kind = "Role" =>
            /\ Len(o.rules) = 1
            /\ Len(o.rules[1].verbs) = 4
            /\ Elems(o.rules[1].verbs) = {"watch", "get", "update", "list"}
            /\ o.rules[1].resources = <<"secrets">>
            /\ o.rules[1].resourceNames = <<o.name>>
            /\ "*" \notin Elems(o.rules[1].verbs) \cup Elems(o.rules[1].resourceNames)
            /\ \E sec \in Elems(objs) :
                   /\ sec.kind = "Secret" /\ sec.type = "rke.cattle.io/machine-plan"
                   /\ sec.name = o.name /\ sec.namespace = o.namespace

\* a pass returned the Role among the six objects of a machine in its bootstrap
WitnessLeastPrivilege ==
    /\ Passed
    /\ Len(PassOut.result) = 6
    /\ PassOut.result[3].kind = "Role"
    /\ PassOut.result[3].rules[1].resourceNames = <<"plan-sha256(m1)">>

\* every object emitted for any machine
Emitted == UNION {Elems(objs) : objs \in UNION {EmittedFor(m) : m \in MachineKeys}}

\* the role grants a verb on the secret: a rule on secrets without resource names
\* covers every secret of the role's namespace
Grants(role, secret) ==
    /\ role.namespace = secret.namespace
    /\ \E i \in 1..Len(role.rules) :
           /\ "secrets" \in Elems(role.rules[i].resources)
           /\ \/ role.rules[i].resourceNames = <<>>
              \/ secret.name \in Elems(role.rules[i].resourceNames)

\* some emitted RoleBinding and the Role it refers to give the principal a verb on
\* the secret
CanAccess(sa, secret) ==
    \E rb \in Emitted : \E role \in Emitted :
        /\ rb.kind = "RoleBinding" /\ role.kind = "Role"
        /\ \E i \in 1..Len(rb.subjects) :
               rb.subjects[i] = [kind |-> "ServiceAccount", name |-> sa.name,
                                 namespace |-> sa.namespace]
        /\ rb.roleRef.kind = "Role" /\ rb.roleRef.name = role.name
        /\ rb.namespace = role.namespace
        /\ Grants(role, secret)

\* C7 (node isolation): over the desired sets of all machines, every RoleBinding has
\* exactly one subject, the principal emitted first in its own set, and an emitted
\* principal has a verb on an emitted secret only if it is the plan principal of a
\* machine and the secret is the plan secret of the same machine: never on the plan
\* secret or bootstrap secret of another machine.
NodeIsolation ==
    /\ \A m \in MachineKeys : \A objs \in EmittedFor(m) : \A rb \in Elems(objs) :
           rb.kind = "RoleBinding" =>
               rb.subjects = <<[kind |-> "ServiceAccount", name |-> objs[1].name,
                                namespace |-> objs[1].namespace]>>
    /\ \A m1 \in MachineKeys, m2 \in MachineKeys :
           \A s1 \in EmittedFor(m1), s2 \in EmittedFor(m2) :
               \A sa \in Elems(s1), sec \in Elems(s2) :
                   (sa.kind = "ServiceAccount" /\ sec.kind = "Secret" /\ CanAccess(sa, sec))
                   => (/\ m1 = m2
                       /\ sa.labels["rke.cattle.io/service-account-role"] = "plan"
                       /\ sec.type = "rke.cattle.io/machine-plan")

\* both machines have their six objects applied, the bootstrap secrets too
WitnessNodeIsolation ==
    /\ Len(applied[M1]) = 6 /\ Len(applied[M2]) = 6
    /\ CanAccess(applied[M1][1], applied[M1][2])
    /\ IsBootstrapSecret(applied[M2][5])

\* C8 (determinism of naming): the four plan-channel objects of a desired set share
\* one name; two desired sets of the same machine, of whatever passes, carry the same
\* name, and those of two different machines of one namespace carry different names.
NamingDeterminism ==
    \A m1 \in MachineKeys, m2 \in MachineKeys :
        \A s1 \in EmittedFor(m1) \ {<<>>}, s2 \in EmittedFor(m2) \ {<<>>} :
            /\ \A i \in 1..4 : s1[i].name = s1[1].name
            /\ m1 = m2 => s1[1].name = s2[1].name
            /\ (m1 # m2 /\ m1.namespace = m2.namespace) => s1[1].name # s2[1].name

\* two passes of one machine gave different desired sets, and the other machine has
\* its own applied
WitnessNamingDeterminism ==
    /\ Len(applied[M1]) = 5
    /\ desired[M1] # Nil /\ Len(desired[M1][1]) = 6
    /\ Len(applied[M2]) >= 4

\* the pass of a managed machine went through both gates of the bootstrap channel and
\* found the bootstrap principal missing or without credential-secret references
PassWithoutCredential ==
    /\ PassManaged
    /\ PassMachine.configRef # Nil
    /\ PassMachine.configRef[1].apiVersion = "rke.cattle.io/v1"
    /\ PassMachine.configRef[1].kind = "RKEBootstrap"
    /\ PassMachine.status.phase \in {"Pending", "Deleting", "Failed", "Provisioning"}
    /\ \E c \in CallsOf(PassOut, "serviceAccountCache.Get") :
           \/ c.err.reason = "NotFound"
           \/ c.err = NoError /\ c.obj[1].secrets = <<>>

\* what C9 says of such a pass, but for the name of the bootstrap principal: no
\* error, the plan-channel 4-tuple and the bootstrap principal and nothing else, no
\* read of the RKEBootstrap and no status update
WithoutCredentialOutcome ==
    /\ PassOut.err = NoError
    /\ Len(PassOut.result) = 5
    /\ IsPlanTuple(SubSeq(PassOut.result, 1, 4), PassMachine.namespace)
    /\ IsBootstrapPrincipal(PassOut.result[5])
    /\ PassOut.result[5].namespace = PassMachine.namespace
    /\ ~ \E o \in Elems(PassOut.result) : IsBootstrapSecret(o)
    /\ ~ Issued(PassOut, "rkeBootstrapCache.Get")
    /\ ~ Issued(PassOut, "rkeBootstrap.UpdateStatus")
    /\ PassOut.update = Nil

\* C9 as claimed (credential not yet attached): such a pass returns no error and
\* exactly the plan-channel 4-tuple and the bootstrap principal, named machine name
\* + "-machine-bootstrap"; no bootstrap secret; the RKEBootstrap is not read and its
\* status not written.
CredentialNotYetAttachedAsClaimed ==
    PassWithoutCredential =>
        /\ WithoutCredentialOutcome
        /\ PassOut.result[5].name = PassMachine.name \o "-machine-bootstrap"

\* C9, amended: as claimed, but the bootstrap principal is named machine name +
\* "-machine-bootstrap" only when that has at most 63 characters; a longer name is
\* cut to its first 57 characters, followed by "-" and five hex digits of its sha256.
CredentialNotYetAttached ==
    PassWithoutCredential =>
        /\ WithoutCredentialOutcome
        /\ PassOut.result[5].name =
               IF Len(PassMachine.name \o "-machine-bootstrap") <= 63
               THEN PassMachine.name \o "-machine-bootstrap"
               ELSE SubSeq(PassMachine.name \o "-machine-bootstrap", 1, 57) \o "-" \o
                    Hex5(Sha256(PassMachine.name \o "-machine-bootstrap"))

\* a pass of the machine with the long name found its bootstrap principal, applied
\* before, without a credential-secret
WitnessCredentialNotYetAttached ==
    /\ PassWithoutCredential
    /\ last.machine = Some(M2)
    /\ \E c \in CallsOf(PassOut, "serviceAccountCache.Get") :
           c.err = NoError /\ c.obj[1].secrets = <<>>
    /\ Len(PassOut.result) = 5

\* C10 as claimed (not-found is benign in the bootstrap resolver): a pass in which
\* the lookup of the principal or the lookup of the credential-secret it references
\* came back not-found returns no error, and goes on without a bootstrap secret: the
\* bootstrap principal is in the desired set, a bootstrap secret is not.
NotFoundIsBenign ==
    Passed =>
        \A c \in CallsOf(PassOut, "serviceAccountCache.Get") \cup
                 CallsOf(PassOut, "secretCache.Get") :
            c.err.reason = "NotFound" =>
                /\ PassOut.err = NoError
                /\ \E o \in Elems(PassOut.result) : IsBootstrapPrincipal(o)
                /\ ~ \E o \in Elems(PassOut.result) : IsBootstrapSecret(o)

\* the token bytes a credential-secret holds: none without the token key
TokenField(secret) ==
    IF "token" \in DOMAIN secret.data THEN secret.data["token"] ELSE ""

\* C11 as claimed (missing token is a hard error): a pass that read a
\* credential-secret without token bytes, the token key absent or empty, returns an
\* error, emits no bootstrap secret and writes no status.
MissingTokenIsHardError ==
    Passed =>
        \A c \in CallsOf(PassOut, "secretCache.Get") :
            (c.err = NoError /\ TokenField(c.obj[1]) = "") =>
                /\ PassOut.err # NoError
                /\ ~ \E o \in Elems(PassOut.result) : IsBootstrapSecret(o)
                /\ ~ Issued(PassOut, "rkeBootstrap.UpdateStatus")

\* C12 (digest correctness): for every bootstrap secret a pass returns, the content
\* provider was handed the URL-safe base64 of the SHA-256 of the token bytes of the
\* credential-secret the pass read, the secret is named after the principal the pass
\* looked up, its only data key is value, which holds the bytes of the provider, and
\* a credential-secret with other token bytes has another digest.
DigestCorrectness ==
    Passed =>
        \A o \in Elems(PassOut.result) : IsBootstrapSecret(o) =>
            \E p \in CallsOf(PassOut, "serviceAccountCache.Get") :
            \E c \in CallsOf(PassOut, "secretCache.Get") :
            \E b \in CallsOf(PassOut, "Bootstrap") :
                /\ p.err = NoError /\ c.err = NoError /\ b.err = NoError
                /\ b.obj[1].tokenHash = "b64url(sha256(" \o TokenField(c.obj[1]) \o "))"
                /\ o.name = p.obj[1].name /\ o.namespace = p.obj[1].namespace
                /\ DOMAIN o.data = {"value"}
                /\ o.data.value =
                       "install(" \o ServerURL \o "," \o b.obj[1].tokenHash \o ")"
                /\ \A other \in CredentialSecrets :
                       TokenField(other) # TokenField(c.obj[1]) =>
                           "b64url(sha256(" \o TokenField(other) \o "))" #
                               b.obj[1].tokenHash

\* a pass returned the bootstrap secret made from the token of token-b
WitnessDigestCorrectness ==
    /\ Passed
    /\ \E o \in Elems(PassOut.result) :
           IsBootstrapSecret(o) /\
           o.data.value = "install(https://rancher.example,b64url(sha256(BBBB)))"
    /\ \E c \in CallsOf(PassOut, "secretCache.Get") : c.obj[1].name = "token-b"

\* C13 (errors abort the whole pass): a call of a pass that returned an error, but
\* for a not-found of the principal lookup, is the last call of the pass; the pass
\* returns that error, no desired object at all and the status it was given, and the
\* apply engine is handed nothing.
ErrorsAbortPass ==
    Passed =>
        \A i \in 1..Len(PassOut.calls) :
            (/\ PassOut.calls[i].err # NoError
             /\ ~ (PassOut.calls[i].call = "serviceAccountCache.Get" /\
                   PassOut.calls[i].err.reason = "NotFound"))
            => (/\ i = Len(PassOut.calls)
                /\ PassOut.err = PassOut.calls[i].err
                /\ PassOut.result = <<>>
                /\ PassOut.status = PassMachine.status
                /\ desired[last.machine[1]] = Nil)

\* a pass resolved the bootstrap secret and then found no RKEBootstrap: it returned
\* the not-found and nothing of the plan channel
WitnessErrorsAbortPass ==
    /\ PassManaged
    /\ Issued(PassOut, "Bootstrap")
    /\ \E c \in CallsOf(PassOut, "rkeBootstrapCache.Get") : c.err.reason = "NotFound"
    /\ PassOut.err = [reason |-> "NotFound", call |-> "rkeBootstrapCache.Get"]
    /\ PassOut.result = <<>>

\* C14 (plan channel for the full machine lifetime): every pass of a machine of a
\* managed cluster that returns no error returns the plan-channel 4-tuple first, its
\* secret of type machine-plan without data, in every phase and with or without a
\* bootstrap config reference.
PlanChannelAlways ==
    (PassManaged /\ PassOut.err = NoError) =>
        /\ Len(PassOut.result) >= 4
        /\ IsPlanTuple(SubSeq(PassOut.result, 1, 4), PassMachine.namespace)
        /\ PassOut.result[2].data = <<>>
        /\ PassOut.result[1].labels["rke.cattle.io/service-account-role"] = "plan"

\* a pass of a machine without a bootstrap config reference, in the phase Deleting,
\* returned the plan channel
WitnessPlanChannelAlways ==
    /\ PassManaged /\ PassOut.err = NoError
    /\ PassMachine.configRef = Nil
    /\ PassMachine.status.phase = "Deleting"
    /\ Len(PassOut.result) = 4

\* C16 (status pass-through): every pass returns the status of the machine it was
\* called with, on every return path, and a step that leaves a pass as the latest
\* one leaves the machines as they are.
StatusPassThrough ==
    [][last'.machine # Nil =>
           /\ last'.out[1].status = machines[last'.machine[1]].status
           /\ machines' = machines]_vars

\* passes on each return path: one that failed on the cluster lookup
WitnessStatusPassThrough ==
    /\ Passed
    /\ PassOut.err = [reason |-> "ServerError", call |-> "clusterCache.Get"]
    /\ PassMachine.status.phase = "Provisioning"
    /\ PassOut.status = [phase |-> "Provisioning"]

\* C17 (applicability gate): for a machine of a managed cluster without a bootstrap
\* config reference, or with one of another API group or version or of another kind,
\* a pass returns no error and exactly the plan-channel 4-tuple in every phase, and
\* issues no call but the cluster lookup: no principal or RKEBootstrap lookup and no
\* status update.
ApplicabilityGate ==
    (/\ PassManaged
     /\ \/ PassMachine.configRef = Nil
        \/ PassMachine.configRef[1].apiVersion # "rke.cattle.io/v1"
        \/ PassMachine.configRef[1].kind # "RKEBootstrap")
    => (/\ PassOut.err = NoError
        /\ IsPlanTuple(PassOut.result, PassMachine.namespace)
        /\ Len(PassOut.calls) = 1
        /\ PassOut.calls[1].call = "clusterCache.Get"
        /\ PassOut.update = Nil)

\* a pass of a Pending machine whose bootstrap config reference is of another
\* version of the group returned the plan channel alone
WitnessApplicabilityGate ==
    /\ PassManaged
    /\ PassMachine.configRef = Some(Ref("rke.cattle.io/v2", "RKEBootstrap", "bs1"))
    /\ PassMachine.status.phase = "Pending"
    /\ Len(PassOut.result) = 4

\* the step is a reconcile pass, which is the latest pass afterwards
PassStep ==
    /\ last'.machine # Nil
    /\ \/ last' # last
       \/ streak' # streak
       \/ desired[last'.machine[1]] = Nil /\ desired'[last'.machine[1]] # Nil

\* the RKEBootstraps of the store that hold name as their dataSecretName already
HeldInStore(update) ==
    {b \in rkeBootstraps :
        /\ b.namespace = update.namespace /\ b.name = update.name
        /\ b.status.dataSecretName = update.status.dataSecretName}

\* C18 as claimed (no redundant status updates under re-triggers): no pass issues a
\* status update whose dataSecretName equals the value the authoritative store holds
\* for that RKEBootstrap already, though the pass reads it through a cache that may
\* lag.
NoRedundantUpdateAsClaimed ==
    [][PassStep =>
           \A c \in CallsOf(last'.out[1], "rkeBootstrap.UpdateStatus") :
               HeldInStore(c.obj[1]) = {}]_vars

\* C18, amended: no pass issues a status update whose dataSecretName equals the value
\* of the cached copy the pass read; so a pass that runs when the cache has caught up
\* with the store issues none whose dataSecretName the store holds already. (A pass
\* that runs while the cache lags behind a write may.)
NoRedundantUpdate ==
    [][PassStep =>
           \A c \in CallsOf(last'.out[1], "rkeBootstrap.UpdateStatus") :
               /\ \E g \in CallsOf(last'.out[1], "rkeBootstrapCache.Get") :
                      /\ g.err = NoError
                      /\ g.obj[1].status.dataSecretName # c.obj[1].status.dataSecretName
               /\ rkeBootstrapCache = rkeBootstraps => HeldInStore(c.obj[1]) = {}]_vars

\* a pass that ran after an earlier pass wrote the status and the cache caught up:
\* it resolved the bootstrap secret again and issued no update
WitnessNoRedundantUpdate ==
    /\ Passed
    /\ rkeBootstrapCache = rkeBootstraps
    /\ \E b \in rkeBootstraps :
           b.status = [dataSecretName |-> Some("m1-machine-bootstrap"), ready |-> TRUE]
    /\ \E o \in Elems(PassOut.result) : IsBootstrapSecret(o)
    /\ Issued(PassOut, "rkeBootstrapCache.Get")
    /\ ~ Issued(PassOut, "rkeBootstrap.UpdateStatus")

\* the credential-secret of that name holds a token field
HasToken(name) ==
    \E sec \in CredentialSecrets : sec.name = name /\ "token" \in DOMAIN sec.data

\* the token of the first of the references that has a token field
FirstToken(refs) ==
    LET i == CHOOSE k \in 1..Len(refs) :
                 HasToken(refs[k]) /\ \A j \in 1..(k - 1) : ~ HasToken(refs[j])
    IN  (CHOOSE sec \in CredentialSecrets : sec.name = refs[i]).data["token"]

\* C20 as claimed (credential-secret selection): a pass without a fault that found
\* the bootstrap principal with a reference to a credential-secret that has a token
\* field builds the bootstrap payload from the first such reference: a reference
\* before it without a token field, or to a secret that cannot be read, does not
\* prevent it.
FirstReferenceWithToken ==
    (Passed /\ last.fault = "none") =>
        \A p \in CallsOf(PassOut, "serviceAccountCache.Get") :
            (p.err = NoError /\
             \E k \in 1..Len(p.obj[1].secrets) : HasToken(p.obj[1].secrets[k]))
            => \E b \in CallsOf(PassOut, "Bootstrap") :
                   b.obj[1].tokenHash =
                       "b64url(sha256(" \o FirstToken(p.obj[1].secrets) \o "))"

\* the bootstrap principal of machine m holds a credential-secret
Attached(m) ==
    \E sa \in serviceAccounts :
        /\ sa.namespace = m.namespace
        /\ sa.labels = ("rke.cattle.io/machine-name" :> m.name) @@
                       ("rke.cattle.io/service-account-role" :> "bootstrap")
        /\ Len(sa.secrets) > 0

\* the bootstrap secret of machine m is applied, and the RKEBootstrap of m names it
\* and is ready
Bootstrapped(m) ==
    \E o \in Elems(applied[m]) :
        /\ IsBootstrapSecret(o)
        /\ \E b \in rkeBootstraps :
               /\ b.namespace = m.namespace
               /\ b.name = machines[m].configRef[1].name
               /\ b.status = [dataSecretName |-> Some(o.name), ready |-> TRUE]

\* C15 (asynchronous credential attachment is eventually picked up): for a managed
\* machine that waits in a bootstrap phase with a matching config reference, once a
\* credential-secret is attached to its bootstrap principal, with no event but the
\* principal's to enqueue the machine, the bootstrap secret is eventually in the
\* applied desired set and the RKEBootstrap names it and is ready.
CredentialPickedUp ==
    \A m \in {M1, M2} : Attached(m) ~> Bootstrapped(m)

\* the machine with the long name has its bootstrap secret applied and published,
\* the other one waits for its credential still
WitnessCredentialPickedUp ==
    /\ Attached(M2) /\ Bootstrapped(M2)
    /\ ~ Attached(M1) /\ Len(applied[M1]) = 5
    /\ queue = {}

\* the cluster of the machines is of the managed kind
ClusterManaged ==
    \E cl \in clusters :
        cl.spec.infrastructureRef = Some(Ref("rke.cattle.io/v1", "RKECluster", ClusterName))

\* the principals of the store that carry the name of machine m, of that role
PrincipalsOf(m, role) ==
    {sa \in serviceAccounts :
        /\ "rke.cattle.io/machine-name" \in DOMAIN sa.labels
        /\ sa.labels["rke.cattle.io/machine-name"] = m.name
        /\ sa.labels["rke.cattle.io/service-account-role"] = role}

\* the machine is in a phase outside the bootstrap gate, in a managed cluster
PastBootstrap(m) ==
    /\ ClusterManaged
    /\ machines[m].status.phase \notin {"Pending", "Deleting", "Failed", "Provisioning"}

\* nothing of the bootstrap channel of m is applied or in the store
BootstrapPruned(m) ==
    /\ ~ \E o \in Elems(applied[m]) : IsBootstrapSecret(o) \/ IsBootstrapPrincipal(o)
    /\ PrincipalsOf(m, "bootstrap") = {}

\* nothing at all of m is applied or in the store
AllPruned(m) ==
    /\ applied[m] = <<>>
    /\ PrincipalsOf(m, "bootstrap") = {} /\ PrincipalsOf(m, "plan") = {}

\* C19 (objects that leave the desired set are pruned): when the machine is in a
\* phase outside the bootstrap gate, then, unless it comes back into the gate or the
\* cluster changes, eventually nothing of its bootstrap channel is applied and its
\* bootstrap principal is gone from the store; when its cluster is not of the managed
\* kind, then, unless that changes, eventually nothing of the machine is applied and
\* none of its principals is in the store.
DroppedObjectsPruned ==
    /\ PastBootstrap(M1) ~> (BootstrapPruned(M1) \/ ~ PastBootstrap(M1))
    /\ (~ ClusterManaged) ~> (AllPruned(M1) \/ ClusterManaged)

\* the machine had its six objects applied and is Running now: the pass that
\* followed returned the plan channel alone, which the apply engine is to apply
WitnessDroppedObjectsPruned ==
    /\ PastBootstrap(M1)
    /\ machines[M1].status.phase = "Running"
    /\ Len(applied[M1]) = 6
    /\ PrincipalsOf(M1, "bootstrap") # {}
    /\ desired[M1] # Nil
    /\ IsPlanTuple(desired[M1][1], "ns1")

\* the calls a pass can issue that read, and the one that writes
ReadCalls == {"clusterCache.Get", "serviceAccountCache.Get", "secretCache.Get",
              "Bootstrap", "rkeBootstrapCache.Get"}
WriteCalls == {"rkeBootstrap.UpdateStatus"}

\* the RKEBootstraps of the store but for the one of that key
OtherThan(store, key) ==
    {b \in store : ~ (b.namespace = key.namespace /\ b.name = key.name)}

\* C21 (shape of the direct write): every status update a pass issues follows a read
\* of the RKEBootstrap and the lookup of the bootstrap principal in the same pass; the
\* object handed to it is the object read with dataSecretName set to the name of the
\* bootstrap secret resolved in the pass, which is the principal's name, and ready set
\* to true, every other field as read. The cached object is not modified: the cache
\* holds after the pass what it held before. The pass issues no other write: each of
\* its calls is a read or the status update, of which there is at most one, and the
\* store differs after the pass in nothing but the status of that RKEBootstrap.
DirectWriteShape ==
    [][PassStep =>
           /\ \A i \in 1..Len(last'.out[1].calls) :
                  last'.out[1].calls[i].call \in ReadCalls \cup WriteCalls
           /\ Cardinality({i \in 1..Len(last'.out[1].calls) :
                              last'.out[1].calls[i].call \in WriteCalls}) <= 1
           /\ \A c \in CallsOf(last'.out[1], "rkeBootstrap.UpdateStatus") :
                  /\ \E g \in CallsOf(last'.out[1], "rkeBootstrapCache.Get") :
                         /\ g.err = NoError
                         /\ g.obj[1] \in rkeBootstrapCache
                         /\ c.obj[1].namespace = g.obj[1].namespace
                         /\ c.obj[1].name = g.obj[1].name
                         /\ DOMAIN c.obj[1] = DOMAIN g.obj[1]
                         /\ DOMAIN c.obj[1].status = {"dataSecretName", "ready"}
                  /\ \E p \in CallsOf(last'.out[1], "serviceAccountCache.Get") :
                         /\ p.err = NoError
                         /\ c.obj[1].status.dataSecretName = Some(p.obj[1].name)
                  /\ c.obj[1].status.ready = TRUE
                  /\ last'.out[1].err = NoError =>
                         \E o \in Elems(last'.out[1].result) :
                             /\ IsBootstrapSecret(o)
                             /\ c.obj[1].status.dataSecretName = Some(o.name)
                  /\ OtherThan(rkeBootstraps', c.obj[1]) = OtherThan(rkeBootstraps, c.obj[1])
           /\ ~ Issued(last'.out[1], "rkeBootstrap.UpdateStatus") =>
                  rkeBootstraps' = rkeBootstraps
           /\ rkeBootstrapCache' = rkeBootstrapCache
           /\ serviceAccounts' = serviceAccounts
           /\ clusters' = clusters]_vars

\* a pass that read an RKEBootstrap which named another secret and was ready, and
\* wrote the name of the secret it resolved: the store holds it, the cache the old one
WitnessDirectWriteShape ==
    /\ Passed
    /\ \E c \in CallsOf(PassOut, "rkeBootstrap.UpdateStatus") : c.err = NoError
    /\ \E b \in rkeBootstrapCache :
           b.status = [dataSecretName |-> Some("old-bootstrap-secret"), ready |-> TRUE]
    /\ \E b \in rkeBootstraps :
           b.status = [dataSecretName |-> Some("m1-machine-bootstrap"), ready |-> TRUE]

\* the machine of the pass has a matching bootstrap config reference and is in a
\* phase of the bootstrap gate
PassInBothGates ==
    /\ PassMachine.configRef # Nil
    /\ PassMachine.configRef[1].apiVersion = "rke.cattle.io/v1"
    /\ PassMachine.configRef[1].kind = "RKEBootstrap"
    /\ PassMachine.status.phase \in {"Pending", "Deleting", "Failed", "Provisioning"}

\* the pass resolved a bootstrap secret: the content provider returned the payload
PassResolvedSecret ==
    \E b \in CallsOf(PassOut, "Bootstrap") : b.err = NoError

\* C22 (composition of the desired set): a pass without an error that found the
\* cluster not of the managed kind returns no object; one of a managed machine
\* returns the plan principal, plan secret, plan role and plan role-binding, then the
\* bootstrap secret if and only if one was resolved, then the bootstrap principal if
\* and only if both gates pass, and nothing else: 4, 5 or 6 objects, the bootstrap
\* secret only together with the bootstrap principal and right before it, and every
\* object in the namespace of the machine.
DesiredSetComposition ==
    (Passed /\ PassOut.err = NoError) =>
        IF ~ PassManaged THEN PassOut.result = <<>>
        ELSE /\ Len(PassOut.result) \in {4, 5, 6}
             /\ IsPlanTuple(SubSeq(PassOut.result, 1, 4), PassMachine.namespace)
             /\ PassOut.result[1].labels["rke.cattle.io/service-account-role"] = "plan"
             /\ \A i \in 1..Len(PassOut.result) :
                    PassOut.result[i].namespace = PassMachine.namespace
             /\ Len(PassOut.result) >= 5 <=> PassInBothGates
             /\ Len(PassOut.result) = 6 <=> PassResolvedSecret
             /\ Len(PassOut.result) >= 5 =>
                    IsBootstrapPrincipal(PassOut.result[Len(PassOut.result)])
             /\ Len(PassOut.result) = 6 => IsBootstrapSecret(PassOut.result[5])
             /\ \A i \in 1..Len(PassOut.result) :
                    IsBootstrapSecret(PassOut.result[i]) =>
                        /\ i = 5
                        /\ Len(PassOut.result) = 6

\* a pass of a Failed machine that returned six objects, the bootstrap secret the
\* fifth and the bootstrap principal the sixth
WitnessDesiredSetComposition ==
    /\ PassManaged /\ PassOut.err = NoError
    /\ PassMachine.status.phase = "Failed"
    /\ Len(PassOut.result) = 6
    /\ PassOut.result[5].kind = "Secret" /\ PassOut.result[6].kind = "ServiceAccount"
    /\ PassOut.result[5].name = PassOut.result[6].name

\* the step is a pass that issues a status update
IssuesStatusUpdate ==
    PassStep /\ Issued(last'.out[1], "rkeBootstrap.UpdateStatus")

\* the step is one of the apply engine that changes the principals of the store
ApplyChangesStore ==
    /\ applied' # applied
    /\ serviceAccounts' # serviceAccounts

\* the step enqueues a machine for the change event of a principal
TriggerEnqueues ==
    /\ serviceAccounts' # serviceAccounts
    /\ queue' # queue

\* C23 (no reconcile storm): in the closed loop of reconcile pass, apply, change
\* event of a principal, trigger and reconcile pass, with machines, cluster,
\* credential-secrets and setting as they are and the token controller done after
\* finitely many attachments, from some point on no pass issues a status update, the
\* apply engine changes no principal of the store, the RKEBootstraps of the store
\* stay as they are and no change event of a principal enqueues a machine, however
\* often the dispatcher resyncs.
NoReconcileStorm ==
    <>[][/\ ~ IssuesStatusUpdate
         /\ ~ ApplyChangesStore
         /\ ~ TriggerEnqueues
         /\ rkeBootstraps' = rkeBootstraps]_vars

\* the loop at rest after it ran for both machines: every credential-secret the token
\* controller has is attached, both bootstrap secrets are applied and published, the
\* cache has caught up, nothing is queued or waits for the apply engine, and the
\* latest pass issued no status update
WitnessNoReconcileStorm ==
    /\ queue = {} /\ \A m \in {M1, M2} : desired[m] = Nil
    /\ Bootstrapped(M1) /\ Bootstrapped(M2)
    /\ \A m \in {M1, M2} : \A sa \in PrincipalsOf(m, "bootstrap") : Len(sa.secrets) = 2
    /\ rkeBootstrapCache = rkeBootstraps
    /\ Passed
    /\ Len(PassOut.result) = 6
    /\ ~ Issued(PassOut, "rkeBootstrap.UpdateStatus")

\* the pass of m that is under way or returned last has its return value
Returned(m) == inflight[m].out # Nil

\* the RKEBootstraps of the store under the key of m's bootstrap config reference
ConfigOf(store, m) ==
    {b \in store : b.namespace = m.namespace /\ b.name = machines[m].configRef[1].name}

\* the pass of m returns what it returns when it runs alone, and the store holds for
\* the RKEBootstrap of m what the pass run alone leaves there: the status of its
\* update, or the status it read when it issued no update
AsAlone(m) ==
    /\ inflight[m].out = inflight[m].alone
    /\ \A c \in CallsOf(inflight[m].alone[1], "rkeBootstrap.UpdateStatus") :
           c.err = NoError => ConfigOf(rkeBootstraps, m) = {c.obj[1]}
    /\ \A g \in CallsOf(inflight[m].alone[1], "rkeBootstrapCache.Get") :
           (g.err = NoError /\ ~ Issued(inflight[m].alone[1], "rkeBootstrap.UpdateStatus"))
           => ConfigOf(rkeBootstraps, m) = {g.obj[1]}

\* the step is the status update of m's pass
WritesStatus(m) ==
    /\ inflight[m].pc = "rkeBootstrap.UpdateStatus"
    /\ inflight'[m].pc = "return"

\* C24 (independence of distinct machines): with the passes of two machines that
\* reference an RKEBootstrap each running side by side, their calls interleaved in
\* any order and no lock taken, the pass of each machine returns the desired set,
\* the status and the error, after the calls with the returns, that it has when it
\* runs alone, and leaves in the store for the machine's RKEBootstrap what it leaves
\* there when it runs alone; and a step changes an RKEBootstrap of the store only as
\* the status update of the pass of the machine M whose config reference names it,
\* in M's namespace: the RKEBootstrap of the other machine stays as it is.
IndependentPasses ==
    /\ [](\A m \in {M1, M2} : Returned(m) => AsAlone(m))
    /\ [][\A m \in {M1, M2} :
              ConfigOf(rkeBootstraps', m) # ConfigOf(rkeBootstraps, m) =>
                  /\ WritesStatus(m)
                  /\ \A o \in {M1, M2} \ {m} :
                         ConfigOf(rkeBootstraps', o) = ConfigOf(rkeBootstraps, o)]_vars

\* the two passes under way at once: the pass of the first machine has read its
\* RKEBootstrap and is about to write it, the pass of the second has written its own
\* since and is about to return, and the cache has caught up with that write
WitnessIndependentPasses ==
    /\ inflight[M1].pc = "rkeBootstrap.UpdateStatus"
    /\ inflight[M2].pc = "return"
    /\ inflight[M2].out[1].update # Nil
    /\ rkeBootstrapCache = rkeBootstraps
    /\ ConfigOf(rkeBootstraps, M1) # ConfigOf(rkeBootstraps, M2)

\* the bootstrap secrets the apply engine holds for machine m in the store
PersistedSecrets(objs) == {o \in Elems(objs) : IsBootstrapSecret(o)}

\* the RKEBootstrap of m in the store names that secret
NamedInStore(m, name) ==
    \E b \in ConfigOf(rkeBootstraps, m) : b.status.dataSecretName = Some(name)

\* the pass of m is at its return, after a status update that succeeded
ReturnsPublished(m) ==
    /\ inflight[m].pc = "return"
    /\ \E c \in CallsOf(inflight[m].out[1], "rkeBootstrap.UpdateStatus") : c.err = NoError

\* C25 (readiness is published before the secret is persisted): when a pass that
\* issued a status update which succeeded is at its return, the RKEBootstrap of the
\* store is ready and names the bootstrap secret of the desired set the pass is about
\* to return, and the apply engine has not been handed that set yet; and when the
\* apply engine creates a bootstrap secret in the store, the RKEBootstrap of the
\* store names it already. So readiness does not wait for the bootstrap secret in the
\* store and does not imply that it is there.
PublishedBeforePersisted ==
    /\ [](\A m \in {M1, M2} :
              ReturnsPublished(m) =>
                  /\ desired[m] = Nil
                  /\ inflight[m].out[1].err = NoError
                  /\ \E o \in Elems(inflight[m].out[1].result) :
                         /\ IsBootstrapSecret(o)
                         /\ \E b \in ConfigOf(rkeBootstraps, m) :
                                b.status = [dataSecretName |-> Some(o.name), ready |-> TRUE])
    /\ [][\A m \in {M1, M2} :
              \A o \in PersistedSecrets(applied'[m]) \ PersistedSecrets(applied[m]) :
                  NamedInStore(m, o.name)]_vars

\* the RKEBootstrap of the first machine is ready and names the bootstrap secret,
\* the pass that wrote it is at its return, and the store holds no bootstrap secret
\* of the machine; the bootstrap secret of the second machine is in the store
WitnessPublishedBeforePersisted ==
    /\ ReturnsPublished(M1)
    /\ \E b \in ConfigOf(rkeBootstraps, M1) :
           b.status = [dataSecretName |-> Some("m1-machine-bootstrap"), ready |-> TRUE]
    /\ PersistedSecrets(applied[M1]) = {}
    /\ PersistedSecrets(applied[M2]) # {}

\* the RKEBootstraps of that store under the key of b
SameKey(store, b) == {c \in store : c.namespace = b.namespace /\ c.name = b.name}

\* C26 (readiness is monotonic with respect to this system): every status update a
\* pass issues carries ready = true and a dataSecretName; and no step of the system
\* removes an RKEBootstrap from the store, takes ready back to false on one that was
\* ready or clears a dataSecretName that was set, whatever the phase of the machine
\* and whether or not the bootstrap secret has been pruned since.
ReadinessMonotonic ==
    [][/\ PassStep =>
              \A c \in CallsOf(last'.out[1], "rkeBootstrap.UpdateStatus") :
                  /\ c.obj[1].status.ready = TRUE
                  /\ c.obj[1].status.dataSecretName # Nil
       /\ \A b \in rkeBootstraps :
              /\ SameKey(rkeBootstraps', b) # {}
              /\ \A c \in SameKey(rkeBootstraps', b) :
                     /\ b.status.ready => c.status.ready
                     /\ b.status.dataSecretName # Nil => c.status.dataSecretName # Nil]_vars

\* a pass of the machine, Running by now, after a pass had written the status and
\* the bootstrap principal and secret were pruned: it returned the plan channel and
\* the RKEBootstrap is ready and names the bootstrap secret as before
WitnessReadinessMonotonic ==
    /\ PassManaged /\ PassOut.err = NoError
    /\ PassMachine.status.phase = "Running"
    /\ Len(PassOut.result) = 4
    /\ Len(applied[M1]) = 4
    /\ PrincipalsOf(M1, "bootstrap") = {}
    /\ \E b \in rkeBootstraps :
           b.status = [dataSecretName |-> Some("m1-machine-bootstrap"), ready |-> TRUE]

\* C27 (no identity clash inside a desired set): no two objects of the desired set a
\* pass returns are of the same kind with the same namespace and name; the plan
\* principal and the bootstrap principal have different names, and so have the plan
\* secret and the bootstrap secret.
NoIdentityClash ==
    Passed =>
        /\ \A i, j \in 1..Len(PassOut.result) :
               (/\ PassOut.result[i].kind = PassOut.result[j].kind
                /\ PassOut.result[i].namespace = PassOut.result[j].namespace
                /\ PassOut.result[i].name = PassOut.result[j].name) => i = j
        /\ Len(PassOut.result) >= 5 =>
               PassOut.result[1].name # PassOut.result[Len(PassOut.result)].name
        /\ Len(PassOut.result) = 6 => PassOut.result[2].name # PassOut.result[5].name

\* a pass of the machine with the long name that returned six objects, two of them
\* principals and two of them secrets, the name of its bootstrap channel cut short
WitnessNoIdentityClash ==
    /\ Passed /\ last.machine = Some(M2)
    /\ Len(PassOut.result) = 6
    /\ Cardinality({i \in 1..6 : PassOut.result[i].kind = "ServiceAccount"}) = 2
    /\ Cardinality({i \in 1..6 : PassOut.result[i].kind = "Secret"}) = 2
    /\ PassOut.result[6].name # PassMachine.name \o "-machine-bootstrap"

\* the principals among the objects objs
PrincipalsIn(objs) == {o \in Elems(objs) : o.kind = "ServiceAccount"}

\* C28 (trigger round trip): every principal a pass of machine M returns, the plan
\* principal and the bootstrap principal, is in M's namespace and carries the
\* owning-machine-name label with M's name, and the trigger's resolver returns for it
\* no error and exactly one key, M's namespace and name; and when the apply engine
\* applies the desired set of M, the change events of the principals it writes
\* enqueue no machine but M.
TriggerRoundTrip ==
    /\ [](Passed =>
              \A o \in PrincipalsIn(PassOut.result) :
                  /\ o.namespace = PassMachine.namespace
                  /\ "rke.cattle.io/machine-name" \in DOMAIN o.labels
                  /\ o.labels["rke.cattle.io/machine-name"] = PassMachine.name
                  /\ TriggerResolver(o.namespace, o.name, o) =
                         [keys |-> <<last.machine[1]>>, err |-> NoError])
    /\ [][\A m \in {M1, M2} :
              applied'[m] # applied[m] => queue' \subseteq queue \cup {m}]_vars

\* the desired set of the machine with the long name, two principals in it, was
\* applied while the queue was empty, and the change events of the principals put
\* this machine and no other on the queue
WitnessTriggerRoundTrip ==
    /\ Passed /\ last.machine = Some(M2)
    /\ Cardinality(PrincipalsIn(PassOut.result)) = 2
    /\ applied[M2] = PassOut.result
    /\ desired[M2] = Nil
    /\ queue = {M2}

====
